---- MODULE Spec2Model ----
(***************************************************************************)
(* Model of the vector gateway of rdwj/advanced-rag                         *)
(* (services/vector_gateway/app.py), of the rerank service it calls         *)
(* (services/rerank_service/app.py, services/rag_core/rerank.py) and of the *)
(* narrow vector-store interface it uses (lib/milvus_io).                   *)
(*                                                                          *)
(* Floats are fixed-point integers: the float 1.0 is the integer One.       *)
(* Python strings that the code parses (the auth headers) are sequences of  *)
(* one-character strings; opaque strings are TLA+ strings.                  *)
(***************************************************************************)
EXTENDS Integers, Sequences, FiniteSets, TLC

\* ------------------------------------------------------------------ bounds
MaxBatch == 2      \* documents in one /upsert request
MaxRows == 2       \* rows the vector store holds over all collections
MaxCtxRows == 3    \* the same, in the specification of files of several chunks
MaxRerankDocs == 3   \* documents of one direct rerank call
MaxTopK == 2       \* largest top_k a /search request asks for
MaxThreads == 2    \* concurrent /upsert requests (concurrent specification)

\* ------------------------------------------------------- program constants
One == 100         \* the float 1.0 of _normalize_score, in fixed point
MAX_DOCS == 3      \* GATEWAY_MAX_DOCS (the default 10000, scaled down)

\* ----------------------------------------------------------------- helpers
Min2(a, b) == IF a <= b THEN a ELSE b
Max2(a, b) == IF a >= b THEN a ELSE b

Range(s) == {s[i] : i \in DOMAIN s}

\* the slice left out: the whole list
TakeAll(s, n) == s

\* s[:n] of Python for n >= 0
Take(s, n) == SubSeq(s, 1, Min2(Len(s), n))

\* list(range(n))
PyRange(n) == [i \in 1..Max2(n, 0) |-> i - 1]

\* [f(x) for x in s if p(x)] keeps the order of s
RECURSIVE SelectIdx(_, _, _)
SelectIdx(s, keep, i) ==
    IF i > Len(s) THEN <<>>
    ELSE IF i \in keep THEN <<s[i]>> \o SelectIdx(s, keep, i + 1)
    ELSE SelectIdx(s, keep, i + 1)

\* all sequences over S of length at most n
SeqsUpTo(S, n) == UNION {[1..k -> S] : k \in 0..n}

\* all sequences of pairwise distinct elements of S of length at most n
DistinctSeqs(S, n) ==
    {s \in SeqsUpTo(S, Min2(n, Cardinality(S))) :
        \A i, j \in DOMAIN s : i # j => s[i] # s[j]}

\* ------------------------------------------------------- Python values
\* A Python value found where the code expects a number: None, a number,
\* the float nan, a string float() parses, or a string float() rejects.
PyNone == [k |-> "none", v |-> 0]
PyNum(n) == [k |-> "num", v |-> n]
PyNaN == [k |-> "nan", v |-> 0]
PyNumStr(n) == [k |-> "numstr", v |-> n]
PyText == [k |-> "text", v |-> 0]

\* _normalize_score without the upper clamp min(1.0, .)
normalize_score_unclamped(val) ==
    CASE val.k = "none" -> 0
      [] val.k = "text" -> 0
      [] val.k = "nan" -> One
      [] OTHER -> IF val.v >= 0 THEN val.v ELSE 0

\* _normalize_score: None -> 0.0; float(val) raising -> 0.0; otherwise
\* max(0.0, min(1.0, float(val))).  min(1.0, nan) is 1.0 in Python, because
\* min keeps its first argument unless the second compares smaller.
normalize_score(val) ==
    CASE val.k = "none" -> 0
      [] val.k = "text" -> 0
      [] val.k = "nan" -> Max2(0, One)
      [] OTHER -> Max2(0, Min2(One, val.v))

\* integer square root (math.sqrt on the perfect squares the model uses)
ISqrt(n) == CHOOSE r \in 0..n : r * r <= n /\ (r + 1) * (r + 1) > n

RECURSIVE Dot(_, _)
Dot(a, b) ==
    IF a = <<>> \/ b = <<>> THEN 0
    ELSE Head(a) * Head(b) + Dot(Tail(a), Tail(b))

\* _cosine_similarity, in fixed point
cosine_similarity(a, b) ==
    IF a = <<>> \/ b = <<>> \/ Len(a) # Len(b) THEN 0
    ELSE LET norm_a == ISqrt(Dot(a, a))
             norm_b == ISqrt(Dot(b, b))
         IN IF norm_a = 0 \/ norm_b = 0 THEN 0
            ELSE (Dot(a, b) * One) \div (norm_a * norm_b)

\* ------------------------------------------------ strings the code parses
\* str.lower() on the characters the model uses
LowerChar(c) ==
    CASE c = "B" -> "b"
      [] c = "E" -> "e"
      [] c = "A" -> "a"
      [] c = "R" -> "r"
      [] c = "T" -> "t"
      [] OTHER -> c

lower(s) == [i \in DOMAIN s |-> LowerChar(s[i])]

startswith(s, p) == Len(s) >= Len(p) /\ SubSeq(s, 1, Len(p)) = p

RECURSIVE lstrip(_)
lstrip(s) == IF s # <<>> /\ Head(s) = " " THEN lstrip(Tail(s)) ELSE s

RECURSIVE rstrip(_)
rstrip(s) ==
    IF s # <<>> /\ s[Len(s)] = " " THEN rstrip(SubSeq(s, 1, Len(s) - 1)) ELSE s

strip(s) == rstrip(lstrip(s))

\* s.split(" ", 1)[1]: what follows the first blank (s contains one)
RECURSIVE AfterFirstBlank(_)
AfterFirstBlank(s) ==
    IF s = <<>> THEN <<>>
    ELSE IF Head(s) = " " THEN Tail(s)
    ELSE AfterFirstBlank(Tail(s))

\* fnmatch.fnmatch(name, pat) for patterns made of literals, "?" and "*"
RECURSIVE fnmatch(_, _)
fnmatch(name, pat) ==
    IF pat = <<>> THEN name = <<>>
    ELSE IF Head(pat) = "*"
         THEN fnmatch(name, Tail(pat))
              \/ (name # <<>> /\ fnmatch(Tail(name), pat))
    ELSE IF name = <<>> THEN FALSE
    ELSE (Head(pat) = "?" \/ Head(pat) = Head(name))
         /\ fnmatch(Tail(name), Tail(pat))

\* ------------------------------------------------------------------- auth
\* A header that is absent (None) and a header that is empty behave alike
\* in _auth_dependency (both are falsy): both are the empty sequence.
NoHeader == <<>>
TOK == <<"t", "o", "k">>
BearerPrefix == <<"b", "e", "a", "r", "e", "r", " ">>

AuthorizationValues ==
    { NoHeader,
      <<"B", "e", "a", "r", "e", "r", " ", "t", "o", "k">>,
      <<"b", "e", "a", "r", "e", "r", " ", " ", "t", "o", "k">>,
      <<"B", "e", "a", "r", "e", "r", " ", "b", "a", "d">>,
      <<"B", "a", "s", "i", "c", " ", "t", "o", "k">> }

ApiKeyValues == { NoHeader, TOK, <<"b", "a", "d">> }

\* _auth_dependency reading X-API-Key before Authorization
extracted_token_key_first(authorization, x_api_key) ==
    IF x_api_key # <<>> THEN strip(x_api_key)
    ELSE IF authorization # <<>> /\ startswith(lower(authorization), BearerPrefix)
    THEN strip(AfterFirstBlank(authorization))
    ELSE NoHeader

\* the token _auth_dependency extracts; None is NoHeader (it is compared
\* with a non-empty AUTH_TOKEN only)
extracted_token(authorization, x_api_key) ==
    IF authorization # <<>> /\ startswith(lower(authorization), BearerPrefix)
    THEN strip(AfterFirstBlank(authorization))
    ELSE IF x_api_key # <<>> THEN strip(x_api_key)
    ELSE NoHeader

\* _auth_dependency returns (TRUE) or raises HTTPException(401) (FALSE)
auth_dependency(auth_token, authorization, x_api_key) ==
    IF auth_token = <<>> THEN TRUE
    ELSE extracted_token(authorization, x_api_key) = auth_token

\* ------------------------------------------------------------ stable sort
\* sorted(xs, key=..., reverse=True) is stable: positions ordered by
\* descending key, equal keys in their original order.
StableOrderDesc(keys) ==
    LET n == Len(keys)
        Before(p, q) == keys[p] > keys[q] \/ (keys[p] = keys[q] /\ p < q)
        Rank(p) == 1 + Cardinality({q \in 1..n : Before(q, p)})
    IN [r \in 1..n |-> CHOOSE p \in 1..n : Rank(p) = r]

\* ------------------------------------------- rag_core/rerank.py (service)
TopNNone == -1     \* top_n = None

\* _passthrough_order
passthrough_order(n, top_n) ==
    PyRange(IF top_n = TopNNone THEN n ELSE Min2(n, top_n))

\* indices[:top_n] when top_n is given
CutTopN(indices, top_n) ==
    IF top_n = TopNNone THEN indices ELSE Take(indices, top_n)

\* The upstream provider's answer: the call fails (RequestException, bad
\* status, body of the wrong shape) or yields a list of {index, score}.
UpFail == [kind |-> "fail", results |-> <<>>]
UpOk(results) == [kind |-> "ok", results |-> results]

\* _rerank_cohere: sort by relevance_score descending, then cut to top_n
rerank_cohere(n, top_n, upstream) ==
    IF upstream.kind = "fail" THEN passthrough_order(n, top_n)
    ELSE LET results == upstream.results
             order == StableOrderDesc([i \in DOMAIN results |-> results[i].score])
             indices == [j \in DOMAIN results |-> results[order[j]].index]
         IN CutTopN(indices, top_n)

\* _rerank_jina: as Cohere (score read from relevance_score or score)
rerank_jina(n, top_n, upstream) ==
    IF upstream.kind = "fail" THEN passthrough_order(n, top_n)
    ELSE LET results == upstream.results
             order == StableOrderDesc([i \in DOMAIN results |-> results[i].score])
             indices == [j \in DOMAIN results |-> results[order[j]].index]
         IN CutTopN(indices, top_n)

\* _rerank_caikit: the upstream order is used as given
rerank_caikit(n, top_n, upstream) ==
    IF upstream.kind = "fail" THEN passthrough_order(n, top_n)
    ELSE CutTopN([j \in DOMAIN upstream.results |-> upstream.results[j].index], top_n)

\* get_rerank_settings: None (reranking disabled), a KeyError (the active
\* provider is not configured), or the provider's settings.
SettingsNone == [provider |-> "none", api_key |-> FALSE, base_url |-> FALSE]
SettingsKeyError == [provider |-> "undefined", api_key |-> FALSE, base_url |-> FALSE]
Settings(provider, api_key, base_url) ==
    [provider |-> provider, api_key |-> api_key, base_url |-> base_url]

\* rerank_documents(query, docs, top_n, prefer_service=False) for n = len(docs);
\* the result is [raised, indices].
rerank_documents(n, top_n, settings, upstream) ==
    LET ok(ix) == [raised |-> FALSE, indices |-> ix]
    IN IF n = 0 THEN ok(<<>>)
       ELSE IF settings = SettingsKeyError THEN [raised |-> TRUE, indices |-> <<>>]
       ELSE IF settings = SettingsNone THEN ok(passthrough_order(n, top_n))
       ELSE IF settings.provider = "passthrough" THEN ok(passthrough_order(n, top_n))
       ELSE IF settings.provider = "cohere"
            THEN IF ~settings.api_key THEN ok(passthrough_order(n, top_n))
                 ELSE ok(rerank_cohere(n, top_n, upstream))
       ELSE IF settings.provider = "jina"
            THEN IF ~settings.api_key THEN ok(passthrough_order(n, top_n))
                 ELSE ok(rerank_jina(n, top_n, upstream))
       ELSE IF settings.provider = "caikit"
            THEN IF ~settings.base_url THEN ok(passthrough_order(n, top_n))
                 ELSE ok(rerank_caikit(n, top_n, upstream))
       ELSE ok(passthrough_order(n, top_n))

\* rerank_service/app.py rerank: POST /rerank answers 200 {indices} or 500
rerank_service(n, top_k, settings, upstream) ==
    LET answer(r) == IF r.raised THEN [status |-> 500, indices |-> <<>>]
                     ELSE [status |-> 200, indices |-> r.indices]
    IN answer(rerank_documents(n, top_k, settings, upstream))

\* ------------------------------------- rag_core/providers (rerank classes)
\* What a provider's rerank() did: it raised or returned indices, and it
\* posted `sent` documents to its backend (contacted) or posted nothing.
Provided(raised, indices, contacted, sent) ==
    [raised |-> raised, indices |-> indices, contacted |-> contacted, sent |-> sent]

\* PassthroughRerankProvider.rerank: the query is ignored
PassthroughRerankProvider_rerank(query, n, top_n) ==
    Provided(FALSE, passthrough_order(n, top_n), FALSE, 0)

\* CohereRerankProvider.rerank: list(documents) is posted whole; a failed
\* call raises RuntimeError
CohereRerankProvider_rerank(query, n, top_n, max_documents, upstream) ==
    IF n = 0 THEN Provided(FALSE, <<>>, FALSE, 0)
    ELSE IF query = "" THEN Provided(FALSE, passthrough_order(n, top_n), FALSE, 0)
    ELSE IF upstream.kind = "fail" THEN Provided(TRUE, <<>>, TRUE, n)
    ELSE LET results == upstream.results
             order == StableOrderDesc([i \in DOMAIN results |-> results[i].score])
             indices == [j \in DOMAIN results |-> results[order[j]].index]
         IN Provided(FALSE, CutTopN(indices, top_n), TRUE, n)

\* JinaRerankProvider.rerank: as Cohere
JinaRerankProvider_rerank(query, n, top_n, max_documents, upstream) ==
    IF n = 0 THEN Provided(FALSE, <<>>, FALSE, 0)
    ELSE IF query = "" THEN Provided(FALSE, passthrough_order(n, top_n), FALSE, 0)
    ELSE IF upstream.kind = "fail" THEN Provided(TRUE, <<>>, TRUE, n)
    ELSE LET results == upstream.results
             order == StableOrderDesc([i \in DOMAIN results |-> results[i].score])
             indices == [j \in DOMAIN results |-> results[order[j]].index]
         IN Provided(FALSE, CutTopN(indices, top_n), TRUE, n)

\* CaikitRerankProvider.rerank: top_n defaults to len(documents), the
\* documents are cut to max_documents, the query is posted as it is and
\* the backend's order is kept; raise_for_status raises
CaikitRerankProvider_rerank(query, n, top_n, max_documents, upstream) ==
    LET limit == IF top_n = TopNNone THEN n ELSE top_n
        sent == IF n > max_documents THEN max_documents ELSE n
    IN IF n = 0 THEN Provided(FALSE, <<>>, FALSE, 0)
       ELSE IF upstream.kind = "fail" THEN Provided(TRUE, <<>>, TRUE, sent)
       ELSE Provided(FALSE,
                     Take([j \in DOMAIN upstream.results |-> upstream.results[j].index],
                          limit),
                     TRUE, sent)

\* the documents rerank_documents(prefer_service=False) posts to a provider:
\* _rerank_cohere, _rerank_jina and _rerank_caikit post all of them
rerank_documents_sent(n, settings) ==
    IF n = 0 THEN 0
    ELSE IF settings \in {SettingsKeyError, SettingsNone} THEN 0
    ELSE IF settings.provider \in {"cohere", "jina"}
         THEN IF settings.api_key THEN n ELSE 0
    ELSE IF settings.provider = "caikit"
         THEN IF settings.base_url THEN n ELSE 0
    ELSE 0

\* one rerank call through `via`: the function rerank_documents (with the
\* settings of the environment) or the rerank method of a provider class
rerank_via(via, query, n, top_n, max_documents, settings, upstream) ==
    IF via = "rerank_documents"
    THEN LET done(r, sent) == Provided(r.raised, r.indices, sent > 0, sent)
         IN done(rerank_documents(n, top_n, settings, upstream),
                 rerank_documents_sent(n, settings))
    ELSE IF via = "CohereRerankProvider"
         THEN CohereRerankProvider_rerank(query, n, top_n, max_documents, upstream)
    ELSE IF via = "JinaRerankProvider"
         THEN JinaRerankProvider_rerank(query, n, top_n, max_documents, upstream)
    ELSE IF via = "CaikitRerankProvider"
         THEN CaikitRerankProvider_rerank(query, n, top_n, max_documents, upstream)
    ELSE PassthroughRerankProvider_rerank(query, n, top_n)

\* ------------------------------------------- vector_gateway: rerank client
\* What the HTTP call of _rerank_documents yields:
\*   "error"     the post, raise_for_status or resp.json() raises
\*               (connection error, timeout, HTTP 4xx/5xx, body not JSON);
\*   "nonobject" the body is JSON but not an object (data.get raises);
\*   "noindices" an object without the key `indices`;
\*   "null", "string", "mixed": `indices` is null, a non-empty string, a
\*               list whose first element is not a number;
\*   "list"      `indices` is a list of integers (items).
Reply(kind, items) == [kind |-> kind, items |-> items]

\* _rerank_documents for n = len(documents): [indices, success], where
\* indices is again a Reply-shaped value ("list", "null", "string", "mixed")
gw_rerank_documents(n, reply) ==
    IF n = 0 THEN [indices |-> Reply("list", <<>>), success |-> TRUE]
    ELSE IF reply.kind \in {"error", "nonobject"}
         THEN [indices |-> Reply("list", PyRange(n)), success |-> FALSE]
    ELSE IF reply.kind = "noindices"
         THEN [indices |-> Reply("list", PyRange(n)), success |-> TRUE]
    ELSE [indices |-> reply, success |-> TRUE]

\* [filtered_hits[i] for i in rerank_indices if i < len(filtered_hits)]:
\* iterating None, comparing a string with an int, or indexing below
\* -len raises; a negative index in range counts from the end.
RECURSIVE PickByIndex(_, _)
PickByIndex(hits, items) ==
    IF items = <<>> THEN [raised |-> FALSE, hits |-> <<>>]
    ELSE LET i == Head(items)
             n == Len(hits)
             rest == PickByIndex(hits, Tail(items))
         IN IF ~(i < n) THEN rest
            ELSE IF i < -n THEN [raised |-> TRUE, hits |-> <<>>]
            ELSE IF rest.raised THEN rest
            ELSE [raised |-> FALSE,
                  hits |-> <<hits[IF i >= 0 THEN i + 1 ELSE n + i + 1]>> \o rest.hits]

reorder_hits(hits, indices) ==
    IF indices.kind = "list" THEN PickByIndex(hits, indices.items)
    ELSE [raised |-> TRUE, hits |-> <<>>]

\* The environment of one rerank call: the service is unreachable, some
\* other server answers at RERANK_SERVICE_URL with a body of its own, or
\* the repository's rerank service answers from its settings and the
\* upstream provider's answer.
RerankDown == [src |-> "down", body |-> "", settings |-> SettingsNone, upstream |-> UpFail]
RerankForeign(body) ==
    [src |-> "foreign", body |-> body, settings |-> SettingsNone, upstream |-> UpFail]
RerankVia(settings, upstream) ==
    [src |-> "service", body |-> "", settings |-> settings, upstream |-> upstream]

http_reply(env, n, top_k) ==
    LET body_of(r) == IF r.status # 200 THEN Reply("error", <<>>)
                      ELSE Reply("list", r.indices)
    IN IF env.src = "down" THEN Reply("error", <<>>)
       ELSE IF env.src = "foreign" THEN Reply(env.body, <<>>)
       ELSE body_of(rerank_service(n, top_k, env.settings, env.upstream))

\* A provider scored the candidates: the service reached a real provider
\* (configured, with its key or base URL) and the provider answered.
ProviderScored(env) ==
    /\ env.src = "service"
    /\ env.upstream.kind = "ok"
    /\ \/ env.settings.provider \in {"cohere", "jina"} /\ env.settings.api_key
       \/ env.settings.provider = "caikit" /\ env.settings.base_url

\* ------------------------------------------------------------------- data
DEFAULT_COLLECTION == "rag_gateway"

\* doc_id / chunk_id: caller-supplied, f"doc-{n}" (memory backend, ts = -1)
\* or f"doc-{idx}-{now_ts}" (Milvus backend)
GivenId(name) == [given |-> name, idx |-> -1, ts |-> -1]
SynthId(idx, ts) == [given |-> "", idx |-> idx, ts |-> ts]

\* metadata of a document: file_name is <<>> and chunk_index is -1 when the
\* key is missing; score is whatever the caller put under "score"
Meta(file_name, mime_type, chunk_index, score) ==
    [file_name |-> file_name, mime_type |-> mime_type,
     chunk_index |-> chunk_index, score |-> score]

FileA == <<"a", "1">>
FileB == <<"b", "1">>

D1 == [doc_id |-> "", text |-> "alpha", metadata |-> Meta(FileA, "text/plain", -1, PyNone)]
D2 == [doc_id |-> "x", text |-> "beta", metadata |-> Meta(FileB, "", 1, PyNumStr(250))]
DEmpty == [doc_id |-> "", text |-> "", metadata |-> Meta(<<>>, "", -1, PyText)]

Models == {"", "m1"}

\* The embedder is a function of text and model.  The default model embeds
\* into two dimensions, model "m1" into one or none.
EmbedVec(text, model) ==
    CASE model = "" /\ text = "alpha" -> <<1, 0>>
      [] model = "" /\ text = "beta" -> <<-3, 4>>
      [] model = "m1" /\ text = "alpha" -> <<1>>
      [] model = "m1" /\ text = "beta" -> <<>>
      [] OTHER -> <<0, 0>>

\* ------------------------------------------------- rag_core/embed.py
\* batch_limit and input_limit of embed_texts when the caller passes none
MAX_TOKENS_PER_BATCH == 3500
MAX_INPUT_TOKENS == 7500

\* estimate_tokens: "alpha" and "" are short texts, "beta" is a text above
\* the per-input limit and "bet" is what is left of it after truncation
estimate_tokens(text) ==
    CASE text = "beta" -> 8000
      [] text = "bet" -> 7500
      [] OTHER -> 1

\* text[: max(1, int(len(text) * keep_ratio))]
truncated(text) == IF text = "beta" THEN "bet" ELSE text

\* The environment of one embed_texts call:
\*   service   the embedding service is not configured ("unset"), the call
\*             fails (one of ServiceFailures), it answers one vector per
\*             text ("ok") or a list one vector short ("short");
\*   provider  config.type: "openai" (the direct path), "cohere", "caikit";
\*   remote    what every call to the provider does: it answers one vector
\*             per text sent ("ok"), one vector fewer ("short"), or fails
\*             ("raise");
\*   max_batch the provider's batch size.
EmbedEnv(service, provider, remote, max_batch) ==
    [service |-> service, provider |-> provider, remote |-> remote,
     max_batch |-> max_batch]

\* the embedding service answers as it should
EmbedFine == EmbedEnv("ok", "openai", "ok", 1)

\* the ways a call of the embedding service fails: the post raises, it
\* times out, the status is not 2xx, the body holds no list `vectors`
ServiceFailures == {"fail", "timeout", "status", "nolist"}

EmbedOutcomes ==
    {EmbedEnv(sv, "openai", "ok", 1) : sv \in {"ok", "short"}}
    \cup {EmbedEnv(sv, "openai", r, 1) :
            sv \in {"unset"} \cup ServiceFailures, r \in {"ok", "short", "raise"}}
    \cup {EmbedEnv(sv, p, r, b) :
            sv \in {"unset"} \cup ServiceFailures, p \in {"cohere", "caikit"},
            r \in {"ok", "short", "raise"}, b \in {1, 2}}

\* the service answers, the service answers a short list, nothing answers
EmbedOutcomesFew ==
    {EmbedFine, EmbedEnv("short", "openai", "ok", 1), EmbedEnv("unset", "openai", "raise", 1)}

\* what one remote call answers for the texts it was sent
remote_vectors(batch, model, remote) ==
    LET all == [i \in DOMAIN batch |-> EmbedVec(batch[i], model)]
    IN IF remote = "short" THEN SubSeq(all, 1, Len(all) - 1) ELSE all

\* the outcome of an embedding function: it raised, or returned vectors;
\* calls counts the remote calls it made
Embedded(raised, vectors, calls) ==
    [raised |-> raised, vectors |-> vectors, calls |-> calls]

\* _embed_batch_direct: the loop over the texts, then the last flush
RECURSIVE embed_batch_direct(_, _, _, _, _, _)
embed_batch_direct(texts, model, remote, vectors, batch, current_tokens) ==
    LET one_more_call(r) == [r EXCEPT !.calls = @ + 1]
    IN IF texts = <<>>
       THEN IF batch = <<>> THEN Embedded(FALSE, vectors, 0)
            ELSE IF remote = "raise" THEN Embedded(TRUE, <<>>, 1)
            ELSE Embedded(FALSE, vectors \o remote_vectors(batch, model, remote), 1)
       ELSE LET text == IF estimate_tokens(Head(texts)) > MAX_INPUT_TOKENS
                        THEN truncated(Head(texts)) ELSE Head(texts)
                est == estimate_tokens(text)
            IN IF batch # <<>> /\ current_tokens + est > MAX_TOKENS_PER_BATCH
               THEN IF remote = "raise" THEN Embedded(TRUE, <<>>, 1)
                    ELSE one_more_call(
                             embed_batch_direct(Tail(texts), model, remote,
                                 vectors \o remote_vectors(batch, model, remote),
                                 <<text>>, est))
               ELSE embed_batch_direct(Tail(texts), model, remote, vectors,
                                       Append(batch, text), current_tokens + est)

\* CohereEmbeddingProvider.embed: batches of max_batch texts, the vectors of
\* every answer appended; the provider embeds with its own model
RECURSIVE cohere_embed(_, _, _)
cohere_embed(texts, remote, max_batch) ==
    LET after(r, got) ==
            IF r.raised THEN Embedded(TRUE, <<>>, r.calls + 1)
            ELSE Embedded(FALSE, got \o r.vectors, r.calls + 1)
    IN IF texts = <<>> THEN Embedded(FALSE, <<>>, 0)
       ELSE IF remote = "raise" THEN Embedded(TRUE, <<>>, 1)
       ELSE after(cohere_embed(SubSeq(texts, max_batch + 1, Len(texts)), remote, max_batch),
                  remote_vectors(Take(texts, max_batch), "", remote))

\* CaikitEmbeddingProvider.embed: as Cohere, but an answer with another
\* number of vectors than texts, or with an empty vector, raises ValueError
RECURSIVE caikit_embed(_, _, _)
caikit_embed(texts, remote, max_batch) ==
    LET after(r, got) ==
            IF r.raised THEN Embedded(TRUE, <<>>, r.calls + 1)
            ELSE Embedded(FALSE, got \o r.vectors, r.calls + 1)
    IN IF texts = <<>> THEN Embedded(FALSE, <<>>, 0)
       ELSE IF remote # "ok" THEN Embedded(TRUE, <<>>, 1)
       ELSE after(caikit_embed(SubSeq(texts, max_batch + 1, Len(texts)), remote, max_batch),
                  remote_vectors(Take(texts, max_batch), "", remote))

\* _embed_via_service without the fallback: a failed call yields an empty
\* list instead of None
embed_via_service_no_fallback(texts, model, service) ==
    IF service = "unset" THEN [none |-> TRUE, vectors |-> <<>>, calls |-> 0]
    ELSE IF service \in {"ok", "short"}
         THEN [none |-> FALSE, vectors |-> remote_vectors(texts, model, service), calls |-> 1]
    ELSE [none |-> FALSE, vectors |-> <<>>, calls |-> 1]

\* _embed_via_service: [none, vectors, calls].  None without a service URL
\* (no call is made) and when the call raises, times out, answers a bad
\* status or a body without a list `vectors`; the list as it came otherwise.
embed_via_service(texts, model, service) ==
    IF service = "unset" THEN [none |-> TRUE, vectors |-> <<>>, calls |-> 0]
    ELSE IF service \in {"ok", "short"}
         THEN [none |-> FALSE, vectors |-> remote_vectors(texts, model, service), calls |-> 1]
    ELSE [none |-> TRUE, vectors |-> <<>>, calls |-> 1]

\* embed_texts(texts, model, prefer_service=True): [raised, vectors, calls].
\* (With prefer_service=False it behaves as with the service unset.)
embed_texts(texts, model, env) ==
    LET via_service == embed_via_service(texts, model, env.service)
        after_service(r) == [r EXCEPT !.calls = @ + via_service.calls]
    IN IF texts = <<>> THEN Embedded(FALSE, <<>>, 0)
       ELSE IF ~via_service.none
            THEN Embedded(FALSE, via_service.vectors, via_service.calls)
       ELSE IF env.provider = "cohere"
            THEN after_service(cohere_embed(texts, env.remote, env.max_batch))
       ELSE IF env.provider = "caikit"
            THEN after_service(caikit_embed(texts, env.remote, env.max_batch))
       ELSE after_service(embed_batch_direct(texts, model, env.remote, <<>>, <<>>, 0))

\* The requests _embed_batch_direct posts, each the list of texts of one
\* client.embeddings.create call (a call that raises ends the loop)
RECURSIVE embed_batch_direct_requests(_, _, _, _)
embed_batch_direct_requests(texts, remote, batch, current_tokens) ==
    IF texts = <<>>
    THEN IF batch = <<>> THEN <<>> ELSE <<batch>>
    ELSE LET text == IF estimate_tokens(Head(texts)) > MAX_INPUT_TOKENS
                     THEN truncated(Head(texts)) ELSE Head(texts)
             est == estimate_tokens(text)
         IN IF batch # <<>> /\ current_tokens + est > MAX_TOKENS_PER_BATCH
            THEN <<batch>> \o (IF remote = "raise" THEN <<>>
                               ELSE embed_batch_direct_requests(Tail(texts), remote,
                                                                <<text>>, est))
            ELSE embed_batch_direct_requests(Tail(texts), remote,
                                             Append(batch, text), current_tokens + est)

\* the requests embed_texts posts to the OpenAI-compatible backend: those of
\* _embed_batch_direct when the service gave no answer and no other
\* provider is configured
embed_texts_requests(texts, model, env) ==
    IF texts = <<>> \/ ~embed_via_service(texts, model, env.service).none
       \/ env.provider \in {"cohere", "caikit"}
    THEN <<>>
    ELSE embed_batch_direct_requests(texts, env.remote, <<>>, 0)

\* -------------------------------------------------------- MemoryBackend
StoredDoc(doc_id, text, metadata, vector) ==
    [doc_id |-> doc_id, text |-> text, metadata |-> metadata, vector |-> vector]

\* MemoryBackend.upsert: [raised, store]
MemoryBackend_upsert(st, docs, maxd) ==
    IF Len(st) + Len(docs) > maxd THEN [raised |-> TRUE, store |-> st]
    ELSE [raised |-> FALSE, store |-> st \o docs]

\* MemoryBackend.search
MemoryBackend_search(st, query_vector, top_k) ==
    LET keep == {i \in DOMAIN st : Len(st[i].vector) = Len(query_vector)}
        norm(kept) == [i \in DOMAIN kept |->
                         normalize_score(PyNum(
                             (cosine_similarity(query_vector, kept[i].vector) + One)
                             \div 2))]
        by(kept, order) == Take([j \in DOMAIN kept |-> kept[order[j]]], top_k)
        ranked(kept) == by(kept, StableOrderDesc(norm(kept)))
    IN ranked(SelectIdx(st, keep, 1))

\* the insert loop of upsert on the memory backend: [raised, store]
RECURSIVE upsert_memory_loop(_, _, _, _)
upsert_memory_loop(st, docs, vectors, maxd) ==
    IF docs = <<>> \/ vectors = <<>> THEN [raised |-> FALSE, store |-> st]
    ELSE LET doc == Head(docs)
             doc_id == IF doc.doc_id # "" THEN GivenId(doc.doc_id)
                       ELSE SynthId(Len(st) + 1, -1)
             stored == StoredDoc(doc_id, doc.text, doc.metadata, Head(vectors))
             go_on(r) == IF r.raised THEN r
                         ELSE upsert_memory_loop(r.store, Tail(docs), Tail(vectors), maxd)
         IN go_on(MemoryBackend_upsert(st, <<stored>>, maxd))

\* ------------------------------------------------ lib/milvus_io (adapter)
Row(chunk_id, file_name, mime_type, chunk_index, text) ==
    [chunk_id |-> chunk_id, file_name |-> file_name, mime_type |-> mime_type,
     chunk_index |-> chunk_index, text |-> text]

\* get_or_create_collection: never drops
get_or_create_collection(mv, name) ==
    IF name \in DOMAIN mv THEN mv ELSE mv @@ (name :> <<>>)

\* insert_chunks: all rows of the call, in order
insert_chunks(mv, name, chunks) == [mv EXCEPT ![name] = @ \o chunks]

RowsOf(mv, name) == IF name \in DOMAIN mv THEN mv[name] ELSE <<>>

TotalRows(mv) ==
    LET RECURSIVE Sum(_)
        Sum(S) == IF S = {} THEN 0
                  ELSE LET c == CHOOSE x \in S : TRUE
                       IN Len(mv[c]) + Sum(S \ {c})
    IN Sum(DOMAIN mv)

\* The distances a hybrid_search reply carries, by hit position: the store
\* reports cosine distances, other numbers, or no usable number at all.
DistanceProfiles ==
    << <<PyNum(10), PyNum(40), PyNum(150)>>,
       <<PyNum(150), PyNum(-50), PyNum(40)>>,
       <<PyText, PyNum(-50), PyNaN>>,
       <<PyNumStr(10), PyNum(250), PyNone>> >>

DistanceAt(profile, i) ==
    LET p == DistanceProfiles[profile] IN p[((i - 1) % Len(p)) + 1]

\* A hybrid_search reply: the call raises ("fail"), returns no result list
\* ("empty"), or a list of at most top_k distinct rows of the collection in
\* fused order (pos: their positions in the collection).
HybridFail == [kind |-> "fail", pos |-> <<>>, profile |-> 1]
HybridEmpty == [kind |-> "empty", pos |-> <<>>, profile |-> 1]
HybridHits(pos, profile) == [kind |-> "hits", pos |-> pos, profile |-> profile]

HybridReplies(mv, name, top_k) ==
    {HybridFail, HybridEmpty} \cup
    {HybridHits(pos, pr) :
        pos \in DistinctSeqs(DOMAIN RowsOf(mv, name), top_k) \ {<<>>},
        pr \in DOMAIN DistanceProfiles}

\* get_context_chunks: rows of the file within the window, ascending
get_context_chunks(mv, name, file_name, chunk_index, window) ==
    LET rows == RowsOf(mv, name)
        keep == {i \in DOMAIN rows :
                    /\ rows[i].file_name = file_name
                    /\ rows[i].chunk_index >= chunk_index - window
                    /\ rows[i].chunk_index <= chunk_index + window}
        by(kept, order) == [j \in DOMAIN kept |-> kept[order[j]]]
        sorted(kept) ==
            by(kept, StableOrderDesc([i \in DOMAIN kept |-> 0 - kept[i].chunk_index]))
    IN sorted(SelectIdx(rows, keep, 1))

\* ------------------------------------------- vector_gateway: /search parts
Hit(doc_id, text, score, file_name, mime_type, chunk_index, distance) ==
    [doc_id |-> doc_id, text |-> text, score |-> score, file_name |-> file_name,
     mime_type |-> mime_type, chunk_index |-> chunk_index, distance |-> distance,
     surrounding_chunks |-> <<>>]

\* SearchFilters; present is FALSE when the request has no filters object
Filters(file_name, file_pattern, mime_type) ==
    [present |-> TRUE, file_name |-> file_name, file_pattern |-> file_pattern,
     mime_type |-> mime_type]
NoFilters ==
    [present |-> FALSE, file_name |-> <<>>, file_pattern |-> <<>>, mime_type |-> ""]

SearchRequest(query, collection, top_k, context_window, filters, model) ==
    [query |-> query, collection |-> collection, top_k |-> top_k,
     context_window |-> context_window, filters |-> filters, model |-> model]

\* pydantic: top_k in 1..100, context_window in 0..10
search_request_valid(req) ==
    /\ req.top_k >= 1 /\ req.top_k <= 100
    /\ req.context_window >= 0 /\ req.context_window <= 10

\* request.collection or DEFAULT_COLLECTION
collection_of(req) == IF req.collection # "" THEN req.collection ELSE DEFAULT_COLLECTION

\* max(top_k * 4, 50) if filters else top_k * 2
overfetch_of(req) ==
    IF req.filters.present THEN Max2(req.top_k * 4, 50) ELSE req.top_k * 2

\* search, "Convert to hit dicts": score = 1.0 - float(distance) when the
\* distance is an int or float, else 0.0, then _normalize_score
raw_hits_of(rows, hyb) ==
    [i \in DOMAIN hyb.pos |->
        LET row == rows[hyb.pos[i]]
            distance == DistanceAt(hyb.profile, i)
            score == CASE distance.k = "num" -> PyNum(One - distance.v)
                       [] distance.k = "nan" -> PyNaN
                       [] OTHER -> PyNum(0)
        IN Hit(row.chunk_id, row.text, normalize_score(score), row.file_name,
               row.mime_type, row.chunk_index, distance)]

\* the filter test with the supplied filters OR-composed
hit_passes_any(hit, filters) ==
    \/ filters.file_name = <<>> /\ filters.file_pattern = <<>> /\ filters.mime_type = ""
    \/ filters.file_name # <<>> /\ hit.file_name = filters.file_name
    \/ filters.file_pattern # <<>> /\ fnmatch(hit.file_name, filters.file_pattern)
    \/ filters.mime_type # "" /\ hit.mime_type = filters.mime_type

\* _apply_filters
hit_passes(hit, filters) ==
    /\ filters.file_name = <<>> \/ hit.file_name = filters.file_name
    /\ filters.file_pattern = <<>> \/ fnmatch(hit.file_name, filters.file_pattern)
    /\ filters.mime_type = "" \/ hit.mime_type = filters.mime_type

apply_filters(hits, filters) ==
    IF ~filters.present THEN hits
    ELSE SelectIdx(hits, {i \in DOMAIN hits : hit_passes(hits[i], filters)}, 1)

\* _get_surrounding_chunks without the test that drops the hit's own chunk
get_surrounding_chunks_with_self(mv, name, file_name, chunk_index, window, failed) ==
    IF window <= 0 \/ failed THEN <<>>
    ELSE LET shaped(kept) ==
                 [i \in DOMAIN kept |->
                     [chunk_index |-> kept[i].chunk_index, text |-> kept[i].text]]
         IN shaped(get_context_chunks(mv, name, file_name, chunk_index, window))

\* _get_surrounding_chunks; failed: milvus_io.get_context_chunks raises
get_surrounding_chunks(mv, name, file_name, chunk_index, window, failed) ==
    IF window <= 0 \/ failed THEN <<>>
    ELSE LET shaped(kept) ==
                 [i \in DOMAIN kept |->
                     [chunk_index |-> kept[i].chunk_index, text |-> kept[i].text]]
             others(chunks) ==
                 shaped(SelectIdx(chunks,
                                  {i \in DOMAIN chunks : chunks[i].chunk_index # chunk_index},
                                  1))
         IN others(get_context_chunks(mv, name, file_name, chunk_index, window))

\* "Build response with surrounding chunks" where one failing fetch leaves
\* every hit of the response without surrounding chunks
with_surrounding_all_or_nothing(mv, name, hits, window, ctxFail) ==
    [i \in DOMAIN hits |->
        IF window > 0 /\ hits[i].file_name # <<>> /\ ctxFail = {}
        THEN [hits[i] EXCEPT !.surrounding_chunks =
                 get_surrounding_chunks(mv, name, hits[i].file_name,
                                        hits[i].chunk_index, window, FALSE)]
        ELSE hits[i]]

\* search, "Build response with surrounding chunks"
with_surrounding(mv, name, hits, window, ctxFail) ==
    [i \in DOMAIN hits |->
        IF window > 0 /\ hits[i].file_name # <<>>
        THEN [hits[i] EXCEPT !.surrounding_chunks =
                 get_surrounding_chunks(mv, name, hits[i].file_name,
                                        hits[i].chunk_index, window, i \in ctxFail)]
        ELSE hits[i]]

\* search on the memory backend: the hits built from BACKEND.search
memory_hits(st, qvec, top_k) ==
    LET hit_of(doc) ==
            Hit(doc.doc_id, doc.text,
                normalize_score(IF doc.vector # <<>>
                                THEN PyNum(cosine_similarity(qvec, doc.vector))
                                ELSE doc.metadata.score),
                doc.metadata.file_name, doc.metadata.mime_type,
                doc.metadata.chunk_index, PyNone)
        hits_of(docs) == [i \in DOMAIN docs |-> hit_of(docs[i])]
    IN hits_of(MemoryBackend_search(st, qvec, top_k))

\* the pipeline with the rerank call made on the unfiltered candidates
rank_and_cut_before_filters(raw, filters, top_k, env) ==
    LET cut(filtered, reply, rr, picked) ==
            [raised |-> picked.raised,
             hits |-> Take(picked.hits, top_k),
             reranked |-> (filtered # <<>> /\ rr.success),
             filtered |-> filtered,
             called |-> filtered # <<>>,
             reply |-> IF filtered # <<>> THEN reply ELSE Reply("error", <<>>)]
        pick(filtered, reply, rr) ==
            cut(filtered, reply, rr,
                IF filtered = <<>> THEN [raised |-> FALSE, hits |-> filtered]
                ELSE IF rr.success THEN reorder_hits(filtered, rr.indices)
                ELSE [raised |-> FALSE, hits |-> filtered])
        call(filtered, reply) ==
            pick(filtered, reply, gw_rerank_documents(Len(filtered), reply))
        rerank(filtered) == call(filtered, http_reply(env, Len(filtered), top_k))
    IN rerank(raw)

\* the Milvus pipeline after the hybrid search returned hits:
\* filter, rerank, truncate.  [raised, hits, reranked, filtered, called,
\* reply], reply being what the HTTP call to the rerank service yielded
rank_and_cut(raw, filters, top_k, env) ==
    LET cut(filtered, reply, rr, picked) ==
            [raised |-> picked.raised,
             hits |-> Take(picked.hits, top_k),
             reranked |-> (filtered # <<>> /\ rr.success),
             filtered |-> filtered,
             called |-> filtered # <<>>,
             reply |-> IF filtered # <<>> THEN reply ELSE Reply("error", <<>>)]
        pick(filtered, reply, rr) ==
            cut(filtered, reply, rr,
                IF filtered = <<>> THEN [raised |-> FALSE, hits |-> filtered]
                ELSE IF rr.success THEN reorder_hits(filtered, rr.indices)
                ELSE [raised |-> FALSE, hits |-> filtered])
        call(filtered, reply) ==
            pick(filtered, reply, gw_rerank_documents(Len(filtered), reply))
        rerank(filtered) == call(filtered, http_reply(env, Len(filtered), top_k))
    IN rerank(apply_filters(raw, filters))

\* ------------------------------------------------------------------ state
VARIABLES
    backend,     \* BACKEND.name: "memory" or "milvus"
    max_docs,    \* MemoryBackend.max_docs
    auth_token,  \* AUTH_TOKEN (<<>>: unset or empty)
    store,       \* MemoryBackend.store
    milvus,      \* the vector store: collection name -> rows
    now,         \* int(time.time())
    pc,          \* "idle", "authorized" (dependencies passed), "responded"
    ep,          \* the endpoint of the request being handled
    hdr,         \* the auth headers of the request being handled
    resp,        \* the response of the request being handled
    calls,       \* the outbound calls the handler made, in order
    trace,       \* the request's size and the values of the /search pipeline
    threads      \* concurrent /upsert requests (concurrent specification)

vars == <<backend, max_docs, auth_token, store, milvus, now, pc, ep, hdr, resp,
          calls, trace, threads>>

Resp(status, hits, count, reranked, inserted, total, names) ==
    [status |-> status, hits |-> hits, count |-> count, reranked |-> reranked,
     inserted |-> inserted, total |-> total, names |-> names]
NoResp == Resp(0, <<>>, 0, FALSE, 0, 0, {})
ErrorResp(status) == Resp(status, <<>>, 0, FALSE, 0, 0, {})

Headers(authorization, x_api_key) ==
    [authorization |-> authorization, x_api_key |-> x_api_key]
NoHeaders == Headers(NoHeader, NoHeader)

\* what a handler was given: the request and what its environment did
SearchInput(req, emb, hyb, env, ctxFail) ==
    [req |-> req, emb |-> emb, hyb |-> hyb, env |-> env, ctx |-> ctxFail]
UpsertInput(req, emb, ins) == [req |-> req, emb |-> emb, ins |-> ins]
EmbedInput(texts, model, emb) == [req |-> <<>>, texts |-> texts, model |-> model, emb |-> emb]
NoInput == [req |-> <<>>]

Trace(op, top_k, fused, filtered, called, reply, src, scored, inp) ==
    [op |-> op, top_k |-> top_k, fused |-> fused, filtered |-> filtered,
     called |-> called, reply |-> reply, src |-> src, scored |-> scored,
     inp |-> inp]
NoReply == Reply("error", <<>>)
NoTrace == Trace("none", 0, <<>>, <<>>, FALSE, NoReply, "down", FALSE, NoInput)
\* a request that request validation rejected
InvalidTrace(inp) == Trace("invalid", 0, <<>>, <<>>, FALSE, NoReply, "down", FALSE, inp)
\* a valid /upsert request of n documents was handled
UpsertTrace(n, inp) == Trace("upsert", n, <<>>, <<>>, FALSE, NoReply, "down", FALSE, inp)

\* ---------------------------------------------------------------- /upsert
UpsertRequest(documents, collection, model) ==
    [documents |-> documents, collection |-> collection, model |-> model]

\* pydantic: documents non-empty, every text non-empty
upsert_request_valid(req) ==
    /\ req.documents # <<>>
    /\ \A i \in DOMAIN req.documents : req.documents[i].text # ""

\* what the Milvus client does on insert: get_or_create_collection raises,
\* insert_chunks raises (nothing inserted), or both succeed
InsertOutcomes == {"ok", "create_fail", "insert_fail"}

\* "Build chunks for insertion"
chunks_of(docs, now_ts) ==
    [i \in DOMAIN docs |->
        LET doc == docs[i]
            idx == i - 1
        IN Row(IF doc.doc_id # "" THEN GivenId(doc.doc_id) ELSE SynthId(idx, now_ts),
               doc.metadata.file_name,
               doc.metadata.mime_type,
               IF doc.metadata.chunk_index = -1 THEN idx ELSE doc.metadata.chunk_index,
               doc.text)]

\* the handler upsert: [resp, store, milvus, calls]
upsert_handler(req, emb, ins, st, mv, maxd, backend_name, now_ts) ==
    LET docs == req.documents
        n == Len(docs)
        collection == IF req.collection # "" THEN req.collection ELSE DEFAULT_COLLECTION
        texts == [i \in DOMAIN docs |-> docs[i].text]
        embedded == embed_texts(texts, req.model, emb)
        vectors == embedded.vectors
        out(r, s, m, c) == [resp |-> r, store |-> s, milvus |-> m, calls |-> c]
    IN IF ~upsert_request_valid(req) THEN out(ErrorResp(422), st, mv, <<>>)
       ELSE IF backend_name = "memory" /\ Len(st) + n > MAX_DOCS
            THEN out(ErrorResp(400), st, mv, <<>>)
       ELSE IF embedded.raised THEN out(ErrorResp(500), st, mv, <<"embed">>)
       ELSE IF Len(vectors) # n THEN out(ErrorResp(500), st, mv, <<"embed">>)
       ELSE IF backend_name = "milvus"
            THEN IF ins = "create_fail"
                 THEN out(ErrorResp(500), st, mv, <<"embed", "get_or_create_collection">>)
                 ELSE LET mv1 == get_or_create_collection(mv, collection)
                          cs == <<"embed", "get_or_create_collection", "insert_chunks">>
                      IN IF ins = "insert_fail" THEN out(ErrorResp(500), st, mv1, cs)
                         ELSE out(Resp(200, <<>>, 0, FALSE, n, -1, {}), st,
                                  insert_chunks(mv1, collection, chunks_of(docs, now_ts)), cs)
       ELSE LET done(r) ==
                    IF r.raised THEN out(ErrorResp(500), r.store, mv, <<"embed">>)
                    ELSE out(Resp(200, <<>>, 0, FALSE, n, Len(r.store), {}), r.store, mv,
                             <<"embed">>)
            IN done(upsert_memory_loop(st, docs, vectors, maxd))

Upsert(req, emb, ins) ==
    /\ pc = "authorized" /\ ep = "upsert"
    /\ LET returns(r) == /\ resp' = r.resp
                          /\ store' = r.store
                          /\ milvus' = r.milvus
                          /\ calls' = r.calls
       IN returns(upsert_handler(req, emb, ins, store, milvus, max_docs, backend, now))
    /\ pc' = "responded"
    /\ trace' = IF upsert_request_valid(req)
                THEN UpsertTrace(Len(req.documents), UpsertInput(req, emb, ins))
                ELSE InvalidTrace(UpsertInput(req, emb, ins))
    /\ UNCHANGED <<backend, max_docs, auth_token, now, ep, hdr, threads>>

\* ---------------------------------------------------------------- /search
\* the handler search: [resp, calls, trace]
search_handler(req, emb, hyb, env, ctxFail, st, mv, backend_name) ==
    LET collection == collection_of(req)
        embedded == embed_texts(<<req.query>>, req.model, emb)
        vectors == embedded.vectors
        out(r, c, t) == [resp |-> r, calls |-> c, trace |-> t]
        ok(hits, reranked) == Resp(200, hits, Len(hits), reranked, 0, 0, {})
        inp == SearchInput(req, emb, hyb, env, ctxFail)
        t0(op) == Trace(op, req.top_k, <<>>, <<>>, FALSE, NoReply, "down", FALSE, inp)
    IN IF ~search_request_valid(req) THEN out(ErrorResp(422), <<>>, InvalidTrace(inp))
       ELSE IF backend_name # "milvus"
       THEN \* memory backend
            IF Len(st) = 0 THEN out(ok(<<>>, FALSE), <<>>, t0("memory"))
            ELSE IF embedded.raised \/ vectors = <<>>
                 THEN out(ErrorResp(500), <<"embed">>, t0("memory"))
            ELSE out(ok(memory_hits(st, vectors[1], req.top_k), FALSE), <<"embed">>,
                     t0("memory"))
       ELSE \* Milvus backend
            IF embedded.raised \/ vectors = <<>>
            THEN out(ErrorResp(500), <<"embed">>, t0("milvus"))
            ELSE IF hyb.kind = "fail"
                 THEN out(ErrorResp(500), <<"embed", "hybrid_search">>, t0("milvus"))
            ELSE LET respond(raw, r) ==
                         LET fetched ==
                                 SelectIdx([i \in DOMAIN r.hits |-> "get_context_chunks"],
                                           {i \in DOMAIN r.hits :
                                               req.context_window > 0
                                               /\ r.hits[i].file_name # <<>>}, 1)
                             cs == <<"embed", "hybrid_search">>
                                   \o (IF r.called THEN <<"rerank">> ELSE <<>>)
                             t == IF r.called
                                  THEN Trace("milvus", req.top_k, raw, r.filtered, TRUE,
                                             r.reply, env.src, ProviderScored(env),
                                             inp)
                                  ELSE Trace("milvus", req.top_k, raw, r.filtered, FALSE,
                                             NoReply, "down", FALSE, inp)
                         IN IF r.raised THEN out(ErrorResp(500), cs, t)
                            ELSE out(ok(with_surrounding(mv, collection, r.hits,
                                                         req.context_window, ctxFail),
                                        r.reranked),
                                     cs \o fetched, t)
                     ranked(raw) ==
                         respond(raw, rank_and_cut(raw, req.filters, req.top_k, env))
                 IN ranked(IF hyb.kind = "empty" THEN <<>>
                           ELSE raw_hits_of(RowsOf(mv, collection), hyb))

Search(req, emb, hyb, env, ctxFail) ==
    /\ pc = "authorized" /\ ep = "search"
    /\ LET returns(r) == /\ resp' = r.resp
                          /\ calls' = r.calls
                          /\ trace' = r.trace
       IN returns(search_handler(req, emb, hyb, env, ctxFail, store, milvus, backend))
    /\ pc' = "responded"
    /\ UNCHANGED <<backend, max_docs, auth_token, store, milvus, now, ep, hdr, threads>>

\* ------------------------------------------------- a call of embed_texts
\* A caller of the library calls embed_texts: resp holds the returned list
\* (status 500 stands for the exception the call raised), calls the remote
\* calls it made.
EmbedTexts(texts, model, emb) ==
    /\ pc = "idle"
    /\ pc' = "responded"
    /\ ep' = "embed_texts"
    /\ hdr' = NoHeaders
    /\ LET returns(r) ==
               /\ resp' = IF r.raised THEN ErrorResp(500)
                          ELSE Resp(200, r.vectors, Len(r.vectors), FALSE, 0, 0, {})
               /\ calls' = [i \in 1..r.calls |->
                               IF i = 1 /\ embed_via_service(texts, model, emb.service).calls = 1
                               THEN "service" ELSE "remote"]
       IN returns(embed_texts(texts, model, emb))
    /\ trace' = Trace("embed_texts", 0, embed_texts_requests(texts, model, emb), <<>>,
                      FALSE, NoReply, "down", FALSE, EmbedInput(texts, model, emb))
    /\ UNCHANGED <<backend, max_docs, auth_token, store, milvus, now, threads>>

\* ------------------------------------------- library call: one rerank call
RerankInput(via, query, n, top_n, max_documents, settings, upstream) ==
    [req |-> <<>>, via |-> via, query |-> query, n |-> n, top_n |-> top_n,
     max_documents |-> max_documents, settings |-> settings, upstream |-> upstream]

\* rerank_documents(query, docs, top_n, prefer_service=False), or
\* provider.rerank(query, docs, top_n), for n = len(docs); trace.top_k is the
\* number of documents posted to the provider's backend
RerankCall(via, query, n, top_n, max_documents, settings, upstream) ==
    /\ pc = "idle"
    /\ pc' = "responded"
    /\ ep' = "rerank"
    /\ hdr' = NoHeaders
    /\ LET returns(r) ==
               /\ resp' = IF r.raised THEN ErrorResp(500)
                          ELSE Resp(200, r.indices, Len(r.indices), FALSE, 0, 0, {})
               /\ calls' = IF r.contacted THEN <<"remote">> ELSE <<>>
               /\ trace' = Trace("rerank", r.sent, <<>>, <<>>, r.contacted, NoReply,
                                 "down", FALSE,
                                 RerankInput(via, query, n, top_n, max_documents,
                                             settings, upstream))
       IN returns(rerank_via(via, query, n, top_n, max_documents, settings, upstream))
    /\ UNCHANGED <<backend, max_docs, auth_token, store, milvus, now, threads>>

\* ------------------------------------------------- the other endpoints
\* GET /healthz: no auth dependency
Healthz(authorization, x_api_key) ==
    /\ pc = "idle"
    /\ pc' = "responded"
    /\ ep' = "healthz"
    /\ hdr' = Headers(authorization, x_api_key)
    /\ resp' = Resp(200, <<>>, IF backend = "memory" THEN Len(store) ELSE -1,
                    FALSE, 0, 0, {})
    /\ calls' = <<>>
    /\ trace' = NoTrace
    /\ UNCHANGED <<backend, max_docs, auth_token, store, milvus, now, threads>>

\* GET /collections; failed: milvus_io.list_collections raises
ListCollections(failed) ==
    /\ pc = "authorized" /\ ep = "collections"
    /\ pc' = "responded"
    /\ IF backend # "milvus"
       THEN resp' = Resp(200, <<>>, 0, FALSE, 0, 0, {}) /\ calls' = <<>>
       ELSE /\ calls' = <<"list_collections">>
            /\ resp' = IF failed THEN ErrorResp(500)
                       ELSE Resp(200, <<>>, Cardinality(DOMAIN milvus), FALSE, 0, 0,
                                 DOMAIN milvus)
    /\ trace' = NoTrace
    /\ UNCHANGED <<backend, max_docs, auth_token, store, milvus, now, ep, hdr, threads>>

\* GET /collections/{name}/stats; failed: milvus_io.get_collection_stats raises
CollectionStats(name, failed) ==
    /\ pc = "authorized" /\ ep = "stats"
    /\ pc' = "responded"
    /\ IF backend # "milvus"
       THEN resp' = ErrorResp(400) /\ calls' = <<>>
       ELSE /\ calls' = <<"get_collection_stats">>
            /\ resp' = IF failed THEN ErrorResp(500)
                       ELSE IF name \notin DOMAIN milvus THEN ErrorResp(404)
                       ELSE Resp(200, <<>>, Len(milvus[name]), FALSE, 0, 0, {name})
    /\ trace' = NoTrace
    /\ UNCHANGED <<backend, max_docs, auth_token, store, milvus, now, ep, hdr, threads>>

\* --------------------------------------------- the framework around them
ProtectedEndpoints == {"upsert", "search", "collections", "stats"}

\* A request to a protected endpoint arrives: FastAPI runs _auth_dependency
\* and calls the handler only if it returns.
Receive(endpoint, authorization, x_api_key) ==
    /\ pc = "idle"
    /\ ep' = endpoint
    /\ hdr' = Headers(authorization, x_api_key)
    /\ calls' = <<>>
    /\ trace' = NoTrace
    /\ IF auth_dependency(auth_token, authorization, x_api_key)
       THEN pc' = "authorized" /\ resp' = NoResp
       ELSE pc' = "responded" /\ resp' = ErrorResp(401)
    /\ UNCHANGED <<backend, max_docs, auth_token, store, milvus, now, threads>>

\* the response goes out; the request's values are dropped
Deliver ==
    /\ pc = "responded"
    /\ pc' = "idle"
    /\ ep' = ""
    /\ hdr' = NoHeaders
    /\ resp' = NoResp
    /\ calls' = <<>>
    /\ trace' = NoTrace
    /\ UNCHANGED <<backend, max_docs, auth_token, store, milvus, now, threads>>

\* a second passes
MaxClock == 1
Tick ==
    /\ pc = "idle"
    /\ now < MaxClock
    /\ now' = now + 1
    /\ UNCHANGED <<backend, max_docs, auth_token, store, milvus, pc, ep, hdr, resp,
                   calls, trace, threads>>

\* ------------------------------------------------------------ input sets
Queries == {"alpha", "beta", ""}

SearchFilterSet ==
    { NoFilters,
      Filters(FileA, <<>>, ""),
      Filters(<<>>, <<"b", "*">>, ""),
      Filters(<<>>, <<>>, "text/plain"),
      Filters(FileA, <<"?", "1">>, "") }

\* /search requests: every query, model and top_k (0 is rejected) without
\* filters, and every filter, context window and collection for one query
SearchRequests ==
    {SearchRequest(q, "", k, 0, NoFilters, m) :
        q \in Queries, k \in 0..MaxTopK, m \in Models}
    \cup
    {SearchRequest("alpha", c, k, w, f, "") :
        c \in {"", "B"}, k \in 1..MaxTopK, w \in {0, 1}, f \in SearchFilterSet}

\* The requests sent to a backend.  The Milvus path passes the query vector
\* to the store and reads nothing else of the query or the model, so one
\* query and one request with another model stand for all of them there.
SearchRequestsOf(backend_name) ==
    IF backend_name = "memory" THEN SearchRequests
    ELSE {SearchRequest("alpha", c, k, 0, f, "") :
            c \in {"", "B"}, k \in 1..MaxTopK, f \in SearchFilterSet}
         \cup {SearchRequest("alpha", "", k, 1, f, "") :
                 k \in 1..MaxTopK, f \in {NoFilters, Filters(FileA, <<>>, "")}}
         \cup {SearchRequest("alpha", "", 0, 0, NoFilters, ""),
               SearchRequest("beta", "", 1, 0, NoFilters, "m1"),
               SearchRequest("", "", 1, 0, NoFilters, "")}

\* a request without filters and context window
Plain(req) == req.filters = NoFilters /\ req.context_window = 0

\* a few /search requests (specifications that explore something else)
SearchRequestsFew ==
    {SearchRequest("alpha", "", k, 0, NoFilters, "") : k \in 1..MaxTopK}

\* upstream provider answers for m documents: index lists that are
\* permutations, truncated, out of range, negative or repeating
Reverse(m) == [i \in 1..m |-> m - i]
UpstreamLists(m) ==
    { PyRange(m), Reverse(m), <<m - 1>>, <<m, 0>>, <<-1>>, <<0 - (m + 1)>>, <<0, 0>> }

\* scores falling (the list is already in relevance order) or rising
Scored(l, falling) ==
    [i \in DOMAIN l |-> [index |-> l[i], score |-> IF falling THEN 90 - i ELSE 10 + i]]

Cohere == Settings("cohere", TRUE, FALSE)
Jina == Settings("jina", TRUE, FALSE)
Caikit == Settings("caikit", FALSE, TRUE)

RerankEnvs(m) ==
    {RerankDown}
    \cup {RerankForeign(b) : b \in {"nonobject", "noindices", "null", "string", "mixed"}}
    \cup {RerankVia(st, UpFail) :
            st \in {SettingsNone, SettingsKeyError, Settings("cohere", FALSE, FALSE),
                    Settings("caikit", FALSE, FALSE), Settings("passthrough", FALSE, FALSE),
                    Cohere, Jina, Caikit}}
    \cup {RerankVia(Cohere, UpOk(Scored(l, TRUE))) : l \in UpstreamLists(m)}
    \cup {RerankVia(Cohere, UpOk(Scored(PyRange(m), FALSE))),
          RerankVia(Jina, UpOk(Scored(PyRange(m), FALSE))),
          RerankVia(Caikit, UpOk(Scored(Reverse(m), TRUE))),
          RerankVia(Caikit, UpOk(Scored(<<m, 0>>, TRUE)))}

RerankEnvsFew == {RerankDown, RerankVia(SettingsNone, UpFail)}

\* one environment of each kind: no service, a malformed body, a service
\* without provider, a provider that reverses the candidates
RerankEnvsSome(m) ==
    {RerankDown, RerankForeign("null"), RerankVia(SettingsNone, UpFail),
     RerankVia(Cohere, UpOk(Scored(Reverse(m), TRUE)))}

\* every environment and distance profile for plain requests, one of each
\* kind for requests with filters or a context window
EnvsOf(req, m, few) ==
    IF few THEN RerankEnvsFew
    ELSE IF Plain(req) THEN RerankEnvs(m) ELSE RerankEnvsSome(m)
ProfilesOf(req, few) ==
    IF few THEN {1, 2}
    ELSE IF Plain(req) THEN DOMAIN DistanceProfiles ELSE {1, 3}

\* /upsert requests
UpsertRequests ==
    {UpsertRequest(ds, c, m) :
        ds \in SeqsUpTo({D1, D2, DEmpty}, MaxBatch), c \in {"", "B"}, m \in Models}

UpsertRequestsFew ==
    {UpsertRequest(ds, "", m) : ds \in SeqsUpTo({D1, D2}, MaxBatch) \ {<<>>}, m \in Models}
    \cup {UpsertRequest(<<>>, "", "")}

\* the chunks of a file, each upserted by a request of its own and in any
\* order, and a chunk of another file, upserted before them if at all
A1 == [doc_id |-> "", text |-> "alpha", metadata |-> Meta(FileA, "text/plain", 1, PyNone)]
A2 == [doc_id |-> "", text |-> "beta", metadata |-> Meta(FileA, "text/plain", 2, PyNone)]
CtxUpsertRequests(mv) ==
    {UpsertRequest(<<d>>, "", "") :
        d \in {D1, A1, A2} \cup (IF TotalRows(mv) = 0 THEN {D2} ELSE {})}

\* /search requests with a context window, without filters
CtxSearchRequests ==
    {SearchRequest("alpha", "", k, w, NoFilters, "") : k \in 1..MaxTopK, w \in 0..2}

\* no rerank service, or a provider that ranks the candidates in reverse
CtxRerankEnvs(m) == {RerankDown, RerankVia(Caikit, UpOk(Scored(Reverse(m), TRUE)))}

\* max_docs of the memory backend when the config file sets it
CfgMaxDocs == {MAX_DOCS - 1, MAX_DOCS + 1}

\* ---------------------------------------- rag_core/config.py (providers)
\* The configuration names providers; a provider's type is its name, but
\* for the embedding providers, which are all of type openai-compatible.
EmbeddingProviderNames == {"openai", "azure"}
RerankProviderNames == {"cohere", "jina", "caikit", "passthrough"}

\* [raised, type, substituted]: the active provider's config, a default
\* built from the environment (substituted), or a KeyError; type "none"
\* is get_rerank_config returning None
ProviderConfig(raised, type, substituted) ==
    [raised |-> raised, type |-> type, substituted |-> substituted]

get_embedding_config(active, providers) ==
    IF active \notin providers
    THEN IF active = "openai" THEN ProviderConfig(FALSE, "openai-compatible", TRUE)
         ELSE ProviderConfig(TRUE, "", FALSE)
    ELSE ProviderConfig(FALSE, "openai-compatible", FALSE)

\* get_embedding_client: RuntimeError when no API key is in the environment
get_embedding_client(active, providers, key) ==
    LET client(cfg) == IF cfg.raised THEN cfg
                       ELSE IF ~key THEN ProviderConfig(TRUE, cfg.type, cfg.substituted)
                       ELSE cfg
    IN client(get_embedding_config(active, providers))

get_rerank_config(active, providers) ==
    IF active \in {"", "none"} THEN ProviderConfig(FALSE, "none", FALSE)
    ELSE IF active \notin providers
         THEN IF active = "cohere" THEN ProviderConfig(FALSE, "cohere", TRUE)
              ELSE ProviderConfig(TRUE, "", FALSE)
    ELSE ProviderConfig(FALSE, active, FALSE)

\* get_rerank_settings: the settings carry api_key = None when no key is in
\* the environment
get_rerank_settings(active, providers, key, base_url) ==
    LET legacy(cfg) == IF cfg.raised THEN SettingsKeyError
                       ELSE IF cfg.type = "none" THEN SettingsNone
                       ELSE Settings(cfg.type, key, base_url)
    IN legacy(get_rerank_config(active, providers))

ConfigInput(kind, active, providers, key) ==
    [req |-> <<>>, kind |-> kind, active |-> active, providers |-> providers,
     key |-> key]

\* The active provider is resolved and used once: get_embedding_client()
\* for an embedding, rerank_documents(query, docs, prefer_service=False) of
\* two documents for a rerank, the provider's backend ranking the second
\* document first.  trace.src is the provider type resolved, trace.called
\* tells that a default took the place of the configured provider.
ResolveProvider(kind, active, providers, key) ==
    /\ pc = "idle"
    /\ pc' = "responded"
    /\ ep' = "config"
    /\ hdr' = NoHeaders
    /\ calls' = <<>>
    /\ IF kind = "embedding"
       THEN LET built(c) ==
                    /\ resp' = IF c.raised THEN ErrorResp(500) ELSE Resp(200, <<>>, 0, FALSE, 0, 0, {})
                    /\ trace' = Trace("config", 0, <<>>, <<>>, c.substituted, NoReply,
                                      c.type, FALSE,
                                      ConfigInput(kind, active, providers, key))
            IN built(get_embedding_client(active, providers, key))
       ELSE LET ranked(cfg, r) ==
                    /\ resp' = IF r.raised THEN ErrorResp(500)
                               ELSE Resp(200, r.indices, Len(r.indices), FALSE, 0, 0, {})
                    /\ trace' = Trace("config", 0, <<>>, <<>>, cfg.substituted, NoReply,
                                      cfg.type, FALSE,
                                      ConfigInput(kind, active, providers, key))
            IN ranked(get_rerank_config(active, providers),
                      rerank_documents(2, TopNNone,
                                       get_rerank_settings(active, providers, key, TRUE),
                                       UpOk(<<[index |-> 1, score |-> 90],
                                              [index |-> 0, score |-> 10]>>)))
    /\ UNCHANGED <<backend, max_docs, auth_token, store, milvus, now, threads>>

\* ------------------------------------------- retrieval-mcp: rag_search
\* rag_search raised ToolError: the tool call ends without a result
ToolError == ErrorResp(-1)

\* the validation of rag_search without the upper limit of context_window
rag_search_valid_any_window(query, collection, top_k, context_window, min_score, response_format) ==
    /\ ~(query = <<>> \/ strip(query) = <<>>)
    /\ ~(collection = <<>> \/ strip(collection) = <<>>)
    /\ ~(top_k < 1 \/ top_k > 20)
    /\ ~(context_window < 0)
    /\ ~(min_score < 0 \/ min_score > One)
    /\ response_format \in {"concise", "detailed"}

\* rag_search, "Validate inputs": no check raises ToolError
rag_search_valid(query, collection, top_k, context_window, min_score, response_format) ==
    /\ ~(query = <<>> \/ strip(query) = <<>>)
    /\ ~(collection = <<>> \/ strip(collection) = <<>>)
    /\ ~(top_k < 1 \/ top_k > 20)
    /\ ~(context_window < 0 \/ context_window > 5)
    /\ ~(min_score < 0 \/ min_score > One)
    /\ response_format \in {"concise", "detailed"}

\* What the vector gateway does with the tool's requests: /search answers
\* hits (scores 30 and 80) or none, answers 404 (and GET /collections then
\* answers or fails), cannot be reached, or answers another error status.
GatewayOutcomes == {"hits", "empty", "404", "404_nolist", "unavailable", "error"}

\* rag_search: [raised, hits, calls], hits being the scores of the hits
\* the answer is formatted from, calls the requests sent to the gateway
rag_search(query, collection, top_k, context_window, min_score, response_format, gateway) ==
    LET out(raised, hits, sent) == [raised |-> raised, hits |-> hits, calls |-> sent]
        found == IF gateway = "hits" THEN <<80, 30>> ELSE <<>>
        kept == IF min_score > 0
                THEN SelectSeq(found, LAMBDA s : s >= min_score) ELSE found
    IN IF ~rag_search_valid(query, collection, top_k, context_window, min_score,
                            response_format)
       THEN out(TRUE, <<>>, <<>>)
       ELSE IF gateway \in {"404", "404_nolist"}
            THEN out(TRUE, <<>>, <<"search", "list_collections">>)
       ELSE IF gateway \in {"unavailable", "error"}
            THEN out(TRUE, <<>>, <<"search">>)
       ELSE out(FALSE, kept, <<"search">>)

McpInput(query, collection, top_k, context_window, min_score, response_format, gateway) ==
    [req |-> <<>>, query |-> query, collection |-> collection, top_k |-> top_k,
     context_window |-> context_window, min_score |-> min_score,
     response_format |-> response_format, gateway |-> gateway]

\* one call of the MCP tool rag_search
RagSearch(query, collection, top_k, context_window, min_score, response_format, gateway) ==
    /\ pc = "idle"
    /\ pc' = "responded"
    /\ ep' = "rag_search"
    /\ hdr' = NoHeaders
    /\ LET returns(r) ==
               /\ resp' = IF r.raised THEN ToolError
                          ELSE Resp(200, r.hits, Len(r.hits), FALSE, 0, 0, {})
               /\ calls' = r.calls
       IN returns(rag_search(query, collection, top_k, context_window, min_score,
                             response_format, gateway))
    /\ trace' = Trace("rag_search", top_k, <<>>, <<>>, FALSE, NoReply, "down", FALSE,
                      McpInput(query, collection, top_k, context_window, min_score,
                               response_format, gateway))
    /\ UNCHANGED <<backend, max_docs, auth_token, store, milvus, now, threads>>

\* ----------------------------- embedding_service and rerank_service routes
\* _call_rerank_service: [none, indices, calls].  None without a service
\* URL (no call) and when the call fails; the service's list otherwise.
call_rerank_service(n, top_n, service) ==
    IF service = "unset" THEN [none |-> TRUE, indices |-> <<>>, calls |-> 0]
    ELSE IF service = "ok"
         THEN [none |-> FALSE, indices |-> CutTopN(Reverse(n), top_n), calls |-> 1]
    ELSE [none |-> TRUE, indices |-> <<>>, calls |-> 1]

\* rerank_documents(query, docs, top_n, prefer_service): [raised, indices,
\* calls], calls being the requests made, "service" to RERANK_SERVICE_URL
\* and "remote" to the provider
rerank_documents_preferring(n, top_n, settings, upstream, service, prefer_service) ==
    LET via_service == call_rerank_service(n, top_n, service)
        tried == IF prefer_service /\ n > 0
                 THEN [i \in 1..via_service.calls |-> "service"] ELSE <<>>
        posted == IF rerank_documents_sent(n, settings) > 0 THEN <<"remote">> ELSE <<>>
        direct(r) == [raised |-> r.raised, indices |-> r.indices, calls |-> tried \o posted]
    IN IF n > 0 /\ prefer_service /\ ~via_service.none
       THEN [raised |-> FALSE, indices |-> via_service.indices, calls |-> tried]
       ELSE direct(rerank_documents(n, top_n, settings, upstream))

\* embed_texts(texts, model, prefer_service): without prefer_service
\* _embed_via_service is not called; calls are the requests made,
\* "service" to EMBEDDING_SERVICE_URL and "remote" to the provider
embed_texts_preferring(texts, model, env, prefer_service) ==
    LET seen == IF prefer_service THEN env ELSE [env EXCEPT !.service = "unset"]
        called(r) ==
            [raised |-> r.raised, vectors |-> r.vectors,
             calls |-> [i \in 1..r.calls |->
                          IF i = 1 /\ embed_via_service(texts, model, seen.service).calls = 1
                          THEN "service" ELSE "remote"]]
    IN called(embed_texts(texts, model, seen))

\* POST /embed calling the library with prefer_service=True
embedding_service_embed_preferring(texts, model, env, max_batch) ==
    LET answer(r) == IF r.raised THEN [status |-> 500, items |-> <<>>, calls |-> r.calls]
                     ELSE [status |-> 200, items |-> r.vectors, calls |-> r.calls]
    IN IF texts = <<>> THEN [status |-> 422, items |-> <<>>, calls |-> <<>>]
       ELSE IF Len(texts) > max_batch THEN [status |-> 400, items |-> <<>>, calls |-> <<>>]
       ELSE answer(embed_texts_preferring(texts, model, env, TRUE))

\* embedding_service/app.py embed: POST /embed answers 422 for no texts, 400
\* above MAX_BATCH, 500 when the library raises, 200 with the vectors
embedding_service_embed(texts, model, env, max_batch) ==
    LET answer(r) == IF r.raised THEN [status |-> 500, items |-> <<>>, calls |-> r.calls]
                     ELSE [status |-> 200, items |-> r.vectors, calls |-> r.calls]
    IN IF texts = <<>> THEN [status |-> 422, items |-> <<>>, calls |-> <<>>]
       ELSE IF Len(texts) > max_batch THEN [status |-> 400, items |-> <<>>, calls |-> <<>>]
       ELSE answer(embed_texts_preferring(texts, model, env, FALSE))

\* rerank_service/app.py rerank with the service's own environment: POST
\* /rerank answers 422 for no documents, 500 when the library raises, 200
\* with the indices
rerank_service_rerank(n, top_k, settings, upstream, service) ==
    LET answer(r) == IF r.raised THEN [status |-> 500, items |-> <<>>, calls |-> r.calls]
                     ELSE [status |-> 200, items |-> r.indices, calls |-> r.calls]
    IN IF n = 0 THEN [status |-> 422, items |-> <<>>, calls |-> <<>>]
       ELSE answer(rerank_documents_preferring(n, top_k, settings, upstream, service, FALSE))

ServiceInput(texts, n, env, service) ==
    [req |-> <<>>, texts |-> texts, n |-> n, emb |-> env, service |-> service]

\* one request to the embedding service (AUTH_TOKEN unset)
EmbedService(texts, model, env, max_batch) ==
    /\ pc = "idle"
    /\ pc' = "responded"
    /\ ep' = "/embed"
    /\ hdr' = NoHeaders
    /\ LET returns(r) ==
               /\ resp' = IF r.status # 200 THEN ErrorResp(r.status)
                          ELSE Resp(200, r.items, Len(r.items), FALSE, 0, 0, {})
               /\ calls' = r.calls
       IN returns(embedding_service_embed(texts, model, env, max_batch))
    /\ trace' = Trace("/embed", max_batch, <<>>, <<>>, FALSE, NoReply, "down", FALSE,
                      ServiceInput(texts, Len(texts), env, env.service))
    /\ UNCHANGED <<backend, max_docs, auth_token, store, milvus, now, threads>>

\* one request to the rerank service (AUTH_TOKEN unset)
RerankService(n, top_k, settings, upstream, service) ==
    /\ pc = "idle"
    /\ pc' = "responded"
    /\ ep' = "/rerank"
    /\ hdr' = NoHeaders
    /\ LET returns(r) ==
               /\ resp' = IF r.status # 200 THEN ErrorResp(r.status)
                          ELSE Resp(200, r.items, Len(r.items), FALSE, 0, 0, {})
               /\ calls' = r.calls
       IN returns(rerank_service_rerank(n, top_k, settings, upstream, service))
    /\ trace' = Trace("/rerank", top_k, <<>>, <<>>, FALSE, NoReply, "down", FALSE,
                      ServiceInput(<<>>, n, [settings |-> settings, upstream |-> upstream],
                                   service))
    /\ UNCHANGED <<backend, max_docs, auth_token, store, milvus, now, threads>>

\* ---------------------------------------------------------------- startup
\* _init_backend: the configured backend first, then "memory" unless it is
\* the configured one; a constructor that raises is skipped (MilvusBackend
\* raises when milvus_io.ensure_collection fails, MemoryBackend when the
\* configured max_docs is no integer).  When no preferred backend came up
\* REQUIRE_BACKEND raises, and otherwise MemoryBackend is constructed once
\* more.  The result is the backend's name or "raised".
init_backend(backend_name, milvus_ok, memory_ok, require) ==
    LET prefer == IF backend_name # "memory" THEN <<backend_name, "memory">>
                  ELSE <<backend_name>>
        up(name) == \/ name = "milvus" /\ milvus_ok
                    \/ name = "memory" /\ memory_ok
        first == {i \in DOMAIN prefer :
                    up(prefer[i]) /\ \A j \in 1..(i - 1) : ~up(prefer[j])}
    IN IF first # {} THEN prefer[CHOOSE i \in first : TRUE]
       ELSE IF require THEN "raised"
       ELSE IF memory_ok THEN "memory"
       ELSE "raised"

StartupInput(backend_name, milvus_ok, memory_ok, require) ==
    [req |-> <<>>, backend_name |-> backend_name, milvus_ok |-> milvus_ok,
     memory_ok |-> memory_ok, require |-> require]

\* BACKEND = _init_backend() at import: the process serves requests from
\* the backend returned, or exits when the call raised
Startup(backend_name, milvus_ok, memory_ok, require) ==
    /\ pc = "boot"
    /\ LET started(b) ==
               /\ backend' = IF b = "raised" THEN "none" ELSE b
               /\ pc' = IF b = "raised" THEN "failed" ELSE "idle"
       IN started(init_backend(backend_name, milvus_ok, memory_ok, require))
    /\ trace' = Trace("startup", 0, <<>>, <<>>, FALSE, NoReply, "down", FALSE,
                      StartupInput(backend_name, milvus_ok, memory_ok, require))
    /\ UNCHANGED <<max_docs, auth_token, store, milvus, now, ep, hdr, resp, calls, threads>>

\* --------------------------------------------------------- specifications
InitCommon ==
    /\ backend \in {"memory", "milvus"}
    /\ store = <<>>
    /\ milvus = <<>>
    /\ now = 0
    /\ pc = "idle"
    /\ ep = ""
    /\ hdr = NoHeaders
    /\ resp = NoResp
    /\ calls = <<>>
    /\ trace = NoTrace
    /\ threads = <<>>

\* one Search step with every environment the request can meet; few selects
\* the small input sets of the specifications that explore something else
SearchStep(few) ==
    /\ pc = "authorized" /\ ep = "search"
    /\ \E req \in IF few THEN SearchRequestsFew ELSE SearchRequestsOf(backend),
          emb \in EmbedOutcomesFew :
        LET live == backend = "milvus" /\ search_request_valid(req) /\ emb = EmbedFine
        IN \E hyb \in IF live
                      THEN {h \in HybridReplies(milvus, collection_of(req),
                                                overfetch_of(req)) :
                               h.kind = "hits" => h.profile \in ProfilesOf(req, few)}
                      ELSE {HybridFail} :
           \E env \in IF hyb.kind = "hits" THEN EnvsOf(req, Len(hyb.pos), few)
                      ELSE {RerankDown} :
           \E ctxFail \in IF hyb.kind = "hits" /\ req.context_window > 0
                          THEN SUBSET (1..Min2(req.top_k, Len(hyb.pos)))
                          ELSE {{}} :
               Search(req, emb, hyb, env, ctxFail)

\* The gateway without AUTH_TOKEN: searches in every environment over the
\* stores a few upserts build.
Init ==
    /\ InitCommon
    /\ auth_token = <<>>
    /\ max_docs = MAX_DOCS

Next ==
    \/ \E e \in ProtectedEndpoints : Receive(e, NoHeader, NoHeader)
    \/ Healthz(NoHeader, NoHeader)
    \/ pc = "authorized" /\ \E req \in UpsertRequestsFew :
                               Upsert(req, EmbedFine, "ok") /\ TotalRows(milvus') <= MaxRows
    \/ SearchStep(FALSE)
    \/ \E f \in BOOLEAN : ListCollections(f)
    \/ \E c \in {DEFAULT_COLLECTION, "B"}, f \in BOOLEAN : CollectionStats(c, f)
    \/ Deliver

Spec == Init /\ [][Next]_vars

\* The gateway without AUTH_TOKEN: every /upsert request and outcome, with
\* max_docs from GATEWAY_MAX_DOCS or from the config file.
InitUpsert ==
    /\ InitCommon
    /\ auth_token = <<>>
    /\ max_docs \in {MAX_DOCS} \cup CfgMaxDocs

NextUpsert ==
    \/ Receive("upsert", NoHeader, NoHeader)
    \/ Healthz(NoHeader, NoHeader)
    \/ pc = "authorized" /\ \E req \in UpsertRequests, emb \in EmbedOutcomesFew,
                               ins \in InsertOutcomes :
                               Upsert(req, emb, ins) /\ TotalRows(milvus') <= MaxRows
    \/ Deliver
    \/ Tick

SpecUpsert == InitUpsert /\ [][NextUpsert]_vars

\* The Milvus backend holding files of several chunks: searches with a
\* context window, where fetching the context of one hit can fail.  Every
\* chunk matches the query: hybrid_search returns as many as its limit allows.
InitCtx ==
    /\ InitCommon
    /\ backend = "milvus"
    /\ auth_token = <<>>
    /\ max_docs = MAX_DOCS

CtxSearchStep ==
    /\ pc = "authorized" /\ ep = "search"
    /\ \E req \in CtxSearchRequests :
       \E hyb \in {h \in HybridReplies(milvus, collection_of(req), overfetch_of(req)) :
                      /\ h.profile = 1
                      /\ h.kind = "hits"
                      /\ Len(h.pos) = Min2(overfetch_of(req),
                                           Len(RowsOf(milvus, collection_of(req))))} :
       \E env \in CtxRerankEnvs(Len(hyb.pos)) :
       \E ctxFail \in {{}} \cup
                       (IF req.context_window > 0
                        THEN {{i} : i \in 1..Min2(req.top_k, Len(hyb.pos))} ELSE {}) :
           Search(req, EmbedFine, hyb, env, ctxFail)

NextCtx ==
    \/ \E e \in {"upsert", "search"} : Receive(e, NoHeader, NoHeader)
    \/ pc = "authorized" /\ \E req \in CtxUpsertRequests(milvus) :
                               Upsert(req, EmbedFine, "ok") /\ TotalRows(milvus') <= MaxCtxRows
    \/ CtxSearchStep
    \/ Deliver

SpecCtx == InitCtx /\ [][NextCtx]_vars

\* The library function embed_texts called with every input in every
\* environment.
InitEmbed ==
    /\ InitCommon
    /\ backend = "memory"
    /\ auth_token = <<>>
    /\ max_docs = MAX_DOCS

NextEmbed ==
    \/ \E texts \in SeqsUpTo({"alpha", "beta"}, MaxBatch), model \in Models,
          emb \in EmbedOutcomes : EmbedTexts(texts, model, emb)
    \/ Deliver

SpecEmbed == InitEmbed /\ [][NextEmbed]_vars

\* The rerank library called directly: rerank_documents under each
\* provider configuration and the rerank method of each provider class,
\* with an empty and a non-empty query, up to MaxRerankDocs documents and a
\* provider limit below and above that.
RerankVias ==
    {"rerank_documents", "CohereRerankProvider", "JinaRerankProvider",
     "CaikitRerankProvider", "PassthroughRerankProvider"}
RerankSettingsOf(via) ==
    IF via = "rerank_documents"
    THEN {SettingsNone, Settings("passthrough", FALSE, FALSE),
          Settings("cohere", FALSE, FALSE), Cohere, Jina, Caikit}
    ELSE {SettingsNone}
MaxDocumentsValues == {MaxRerankDocs - 1, 1000}
\* the backend fails, or ranks the m documents it was sent
RerankUpstreams(n) ==
    {UpFail}
    \cup UNION {{UpOk(Scored(Reverse(m), TRUE)), UpOk(Scored(PyRange(m), FALSE))} :
                  m \in {n} \cup {Min2(n, d) : d \in MaxDocumentsValues}}

InitRerank ==
    /\ InitCommon
    /\ backend = "memory"
    /\ auth_token = <<>>
    /\ max_docs = MAX_DOCS

NextRerank ==
    \/ \E via \in RerankVias, query \in {"", "alpha"}, n \in 0..MaxRerankDocs,
          top_n \in {TopNNone} \cup 1..MaxRerankDocs, d \in MaxDocumentsValues :
       \E settings \in RerankSettingsOf(via), upstream \in RerankUpstreams(n) :
          RerankCall(via, query, n, top_n, d, settings, upstream)
    \/ Deliver

SpecRerank == InitRerank /\ [][NextRerank]_vars

\* The gateway from process start: _init_backend under every configured
\* backend name, with each constructor working or raising and
\* GATEWAY_REQUIRE_BACKEND set or not, then requests.
InitStartup ==
    /\ backend = "none"
    /\ store = <<>>
    /\ milvus = <<>>
    /\ now = 0
    /\ pc = "boot"
    /\ ep = ""
    /\ hdr = NoHeaders
    /\ resp = NoResp
    /\ calls = <<>>
    /\ trace = NoTrace
    /\ threads = <<>>
    /\ auth_token = <<>>
    /\ max_docs = MAX_DOCS

NextStartup ==
    \/ \E backend_name \in {"milvus", "memory", "qdrant"},
          milvus_ok \in BOOLEAN, memory_ok \in BOOLEAN, require \in BOOLEAN :
          Startup(backend_name, milvus_ok, memory_ok, require)
    \/ \E e \in ProtectedEndpoints : Receive(e, NoHeader, NoHeader)
    \/ Healthz(NoHeader, NoHeader)
    \/ pc = "authorized" /\ \E req \in UpsertRequestsFew :
                               Upsert(req, EmbedFine, "ok") /\ TotalRows(milvus') <= MaxRows
    \/ SearchStep(TRUE)
    \/ Deliver

SpecStartup == InitStartup /\ [][NextStartup]_vars

\* The provider configuration resolved under every active provider name,
\* every set of configured providers, with and without an API key in the
\* environment.
InitConfig ==
    /\ InitCommon
    /\ backend = "memory"
    /\ auth_token = <<>>
    /\ max_docs = MAX_DOCS

NextConfig ==
    \/ \E active \in EmbeddingProviderNames \cup {"missing"},
          providers \in SUBSET EmbeddingProviderNames, key \in BOOLEAN :
          ResolveProvider("embedding", active, providers, key)
    \/ \E active \in RerankProviderNames \cup {"", "none", "missing"},
          providers \in SUBSET RerankProviderNames, key \in BOOLEAN :
          ResolveProvider("rerank", active, providers, key)
    \/ Deliver

SpecConfig == InitConfig /\ [][NextConfig]_vars

\* The MCP tool rag_search called with arguments at and beyond each limit
\* of its validation, the gateway answering in every way.
McpQueries == {<<>>, <<" ">>, <<" ", " ">>, <<"a">>, <<" ", "a", " ">>}
McpCollections == {<<>>, <<" ">>, <<"c">>}

InitMcp ==
    /\ InitCommon
    /\ backend = "milvus"
    /\ auth_token = <<>>
    /\ max_docs = MAX_DOCS

NextMcp ==
    \/ pc = "idle" /\
       \E query \in McpQueries, collection \in McpCollections,
          top_k \in {0, 1, 20, 21}, context_window \in {-1, 0, 5, 6},
          min_score \in {-1, 0, 50, One, One + 1},
          response_format \in {"concise", "detailed", "json", ""},
          gateway \in GatewayOutcomes :
          RagSearch(query, collection, top_k, context_window, min_score,
                    response_format, gateway)
    \/ Deliver

SpecMcp == InitMcp /\ [][NextMcp]_vars

\* The embedding service and the rerank service, each with the service
\* URLs set or unset in its own environment.
InitServices ==
    /\ InitCommon
    /\ backend = "memory"
    /\ auth_token = <<>>
    /\ max_docs = MAX_DOCS

NextServices ==
    \/ pc = "idle" /\
       \E texts \in SeqsUpTo({"alpha", "beta"}, MaxBatch), model \in Models,
          env \in EmbedOutcomes, max_batch \in {1, 64} :
          EmbedService(texts, model, env, max_batch)
    \/ pc = "idle" /\
       \E n \in 0..MaxRerankDocs, top_k \in {TopNNone, 1, 2},
          settings \in {SettingsNone, SettingsKeyError, Settings("cohere", FALSE, FALSE),
                        Cohere, Caikit},
          service \in {"unset", "fail", "ok"} :
       \E upstream \in RerankUpstreams(n) :
          RerankService(n, top_k, settings, upstream, service)
    \/ Deliver

SpecServices == InitServices /\ [][NextServices]_vars

\* Two collections that share no document: "alpha" documents are upserted
\* into the default collection only, "beta" documents into collection "B"
\* only, and either collection is searched, on both backends.
IsoUpsertRequests ==
    {UpsertRequest(<<D1>>, "", ""), UpsertRequest(<<D2>>, "B", "")}
IsoSearchRequests ==
    {SearchRequest(q, c, k, 0, NoFilters, "") :
        q \in {"alpha", "beta"}, c \in {"", "B"}, k \in 1..MaxTopK}

IsoSearchStep ==
    /\ pc = "authorized" /\ ep = "search"
    /\ \E req \in IsoSearchRequests :
       \E hyb \in IF backend = "milvus"
                  THEN {h \in HybridReplies(milvus, collection_of(req), overfetch_of(req)) :
                           h.kind = "hits" => h.profile = 1}
                  ELSE {HybridFail} :
       \E env \in IF hyb.kind = "hits" THEN RerankEnvsSome(Len(hyb.pos)) ELSE {RerankDown} :
           Search(req, EmbedFine, hyb, env, {})

InitIso ==
    /\ InitCommon
    /\ auth_token = <<>>
    /\ max_docs = MAX_DOCS

NextIso ==
    \/ \E e \in {"upsert", "search"} : Receive(e, NoHeader, NoHeader)
    \/ pc = "authorized" /\ \E req \in IsoUpsertRequests :
                               Upsert(req, EmbedFine, "ok") /\ TotalRows(milvus') <= MaxRows
    \/ IsoSearchStep
    \/ Deliver

SpecIso == InitIso /\ [][NextIso]_vars

\* The gateway with AUTH_TOKEN set: every combination of auth headers.

InitAuth ==
    /\ InitCommon
    /\ auth_token = TOK
    /\ max_docs = MAX_DOCS

NextAuth ==
    \/ \E e \in ProtectedEndpoints, a \in AuthorizationValues, x \in ApiKeyValues :
          Receive(e, a, x)
    \/ \E a \in AuthorizationValues, x \in ApiKeyValues : Healthz(a, x)
    \/ pc = "authorized" /\ \E req \in UpsertRequestsFew :
                               Upsert(req, EmbedFine, "ok") /\ TotalRows(milvus') <= MaxRows
    \/ SearchStep(TRUE)
    \/ \E f \in BOOLEAN : ListCollections(f)
    \/ \E c \in {DEFAULT_COLLECTION, "B"}, f \in BOOLEAN : CollectionStats(c, f)
    \/ Deliver

SpecAuth == InitAuth /\ [][NextAuth]_vars

\* --------------------------------------- concurrent /upsert (memory backend)
\* FastAPI runs the synchronous handlers in a thread pool.  Each thread
\* runs the handler upsert statement by statement; nothing in
\* MemoryBackend or in the handler takes a lock.
Thread(tpc, docs, vectors, i, doc_id, status, total, mine, sizeAfterLast) ==
    [pc |-> tpc, docs |-> docs, vectors |-> vectors, i |-> i, doc_id |-> doc_id,
     status |-> status, total |-> total, mine |-> mine,
     sizeAfterLast |-> sizeAfterLast]
IdleThread == Thread("idle", <<>>, <<>>, 0, GivenId(""), 0, 0, <<>>, 0)

ThreadUnchanged ==
    UNCHANGED <<backend, max_docs, auth_token, milvus, now, pc, ep, hdr, resp,
                calls, trace>>

\* if BACKEND.name == "memory" and BACKEND.count() + len(...) > MAX_DOCS
T_Begin(t, req) ==
    /\ threads[t].pc = "idle"
    /\ upsert_request_valid(req)
    /\ threads' = [threads EXCEPT ![t] =
          IF backend = "memory" /\ Len(store) + Len(req.documents) > MAX_DOCS
          THEN [@ EXCEPT !.pc = "done", !.status = 400, !.docs = req.documents]
          ELSE [@ EXCEPT !.pc = "embed", !.docs = req.documents]]
    /\ UNCHANGED store
    /\ ThreadUnchanged

\* vectors = embed_texts(...); if len(vectors) != len(texts): 500
T_Embed(t, emb) ==
    /\ threads[t].pc = "embed"
    /\ LET docs == threads[t].docs
           embedded == embed_texts([i \in DOMAIN docs |-> docs[i].text], "", emb)
           vectors == embedded.vectors
       IN threads' = [threads EXCEPT ![t] =
             IF embedded.raised \/ Len(vectors) # Len(docs)
             THEN [@ EXCEPT !.pc = "done", !.status = 500]
             ELSE [@ EXCEPT !.pc = "makeid", !.vectors = vectors, !.i = 1]]
    /\ UNCHANGED store
    /\ ThreadUnchanged

\* doc_id = doc.doc_id or f"doc-{BACKEND.count()+1}"
T_MakeId(t) ==
    /\ threads[t].pc = "makeid"
    /\ LET doc == threads[t].docs[threads[t].i]
       IN threads' = [threads EXCEPT ![t] =
             [@ EXCEPT !.pc = "check",
                       !.doc_id = IF doc.doc_id # "" THEN GivenId(doc.doc_id)
                                  ELSE SynthId(Len(store) + 1, -1)]]
    /\ UNCHANGED store
    /\ ThreadUnchanged

\* MemoryBackend.upsert: if len(self.store) + len(docs) > self.max_docs: raise
T_Check(t) ==
    /\ threads[t].pc = "check"
    /\ threads' = [threads EXCEPT ![t] =
          IF Len(store) + 1 > max_docs
          THEN [@ EXCEPT !.pc = "done", !.status = 500]
          ELSE [@ EXCEPT !.pc = "extend"]]
    /\ UNCHANGED store
    /\ ThreadUnchanged

\* MemoryBackend.upsert: self.store.extend(docs); then inserted += 1
T_Extend(t) ==
    /\ threads[t].pc = "extend"
    /\ LET th == threads[t]
           doc == th.docs[th.i]
           stored == StoredDoc(th.doc_id, doc.text, doc.metadata, th.vectors[th.i])
       IN /\ store' = store \o <<stored>>
          /\ threads' = [threads EXCEPT ![t] =
                [@ EXCEPT !.pc = IF th.i = Len(th.docs) THEN "count" ELSE "makeid",
                          !.i = th.i + 1,
                          !.mine = Append(th.mine, stored),
                          !.sizeAfterLast = Len(store) + 1]]
    /\ ThreadUnchanged

\* return UpsertResponse(inserted=inserted, total=BACKEND.count(), ...)
T_Return(t) ==
    /\ threads[t].pc = "count"
    /\ threads' = [threads EXCEPT ![t] =
          [@ EXCEPT !.pc = "done", !.status = 200, !.total = Len(store)]]
    /\ UNCHANGED store
    /\ ThreadUnchanged

ConcRequests ==
    {UpsertRequest(ds, "", "") : ds \in SeqsUpTo({D1, D2}, MaxBatch) \ {<<>>}}

InitConc ==
    /\ backend = "memory"
    /\ max_docs = MAX_DOCS
    /\ auth_token = <<>>
    /\ store = <<>>
    /\ milvus = <<>>
    /\ now = 0
    /\ pc = "idle"
    /\ ep = ""
    /\ hdr = NoHeaders
    /\ resp = NoResp
    /\ calls = <<>>
    /\ trace = NoTrace
    /\ threads = [t \in 1..MaxThreads |-> IdleThread]

NextConc ==
    \E t \in 1..MaxThreads :
        \/ \E req \in ConcRequests : T_Begin(t, req)
        \/ \E emb \in EmbedOutcomesFew : T_Embed(t, emb)
        \/ T_MakeId(t)
        \/ T_Check(t)
        \/ T_Extend(t)
        \/ T_Return(t)

SpecConc == InitConc /\ [][NextConc]_vars

\* ================================================================= claims
Core(h) == [h EXCEPT !.surrounding_chunks = <<>>]
CoreSeq(hs) == [i \in DOMAIN hs |-> Core(hs[i])]

SearchDone == pc = "responded" /\ ep = "search"
\* a /search on the Milvus backend that called the rerank service
RerankCalled == SearchDone /\ trace.op = "milvus" /\ trace.called

\* C1: on the Milvus backend, whenever the rerank call fails (connection
\* error, timeout, HTTP error, body that is not a JSON object, `indices`
\* that is not a list of integers), /search answers 200 with reranked=false
\* and the filtered candidates in fused order cut to top_k.
C1_RerankFailureNotFatal ==
    (RerankCalled
     /\ trace.reply.kind \in {"error", "nonobject", "null", "string", "mixed"})
    => /\ resp.status = 200
       /\ ~resp.reranked
       /\ CoreSeq(resp.hits) = Take(trace.filtered, trace.top_k)

\* C2: when the rerank service answers with passthrough order because its
\* provider is disabled, has no key or failed, the /search response has
\* reranked=false.
C2_PassthroughIsNotReranked ==
    (RerankCalled /\ resp.status = 200 /\ trace.src = "service"
     /\ ~trace.scored)
    => ~resp.reranked

\* C3: every successful /search response has count = len(hits) <= top_k.
C3_CountIsLenAtMostTopK ==
    (SearchDone /\ resp.status = 200)
    => (resp.count = Len(resp.hits) /\ Len(resp.hits) <= trace.top_k)

\* more candidates than top_k passed the filters and the response was cut
C3_Witness ==
    /\ SearchDone /\ resp.status = 200 /\ trace.op = "milvus"
    /\ Len(trace.filtered) > trace.top_k
    /\ Len(resp.hits) = trace.top_k

\* C4: in every successful /search response the scores are weakly
\* decreasing along the hit list.
C4_ScoresWeaklyDecreasing ==
    (SearchDone /\ resp.status = 200)
    => \A i \in 1..(Len(resp.hits) - 1) : resp.hits[i].score >= resp.hits[i + 1].score

\* C5: every hit of every /search response has a score in [0,1].
C5_ScoreInUnitInterval ==
    SearchDone => \A i \in DOMAIN resp.hits :
                      resp.hits[i].score >= 0 /\ resp.hits[i].score <= One

\* a response with a hit whose distance is not a number and a hit whose
\* distance is negative
C5_Witness ==
    /\ SearchDone /\ resp.status = 200
    /\ \E i, j \in DOMAIN resp.hits :
          /\ resp.hits[i].distance = PyText /\ resp.hits[i].score = 0
          /\ resp.hits[j].distance = PyNum(-50) /\ resp.hits[j].score = One

\* C6: on the Milvus backend, when reranking succeeds with index list I,
\* the i-th hit is the filtered candidate at position I[i] for every
\* i < min(len(I), top_k), and there are no other hits.
C6_HitsFollowRerankIndices ==
    (RerankCalled /\ resp.status = 200 /\ resp.reranked /\ trace.reply.kind = "list")
    => LET I == trace.reply.items
           m == Min2(Len(I), trace.top_k)
       IN /\ Len(resp.hits) = m
          /\ \A i \in 1..m :
                /\ I[i] \in 0..(Len(trace.filtered) - 1)
                /\ i <= Len(resp.hits)
                /\ Core(resp.hits[i]) = trace.filtered[I[i] + 1]

\* `Authorization: Bearer <cred>` as the requests of the model send it
BearerHeaders(cred) ==
    { <<"B", "e", "a", "r", "e", "r", " ">> \o cred,
      <<"b", "e", "a", "r", "e", "r", " ", " ">> \o cred }
SendsBearer(h) == \E cred \in ApiKeyValues \ {NoHeader} : h.authorization \in BearerHeaders(cred)

\* the request presents the token in one of the two headers
PresentsToken(h) ==
    h.authorization \in BearerHeaders(auth_token) \/ h.x_api_key = auth_token

\* the request presents the token in the header the gateway reads: the
\* Bearer credential when it sends one, X-API-Key otherwise
PresentsTokenWhereRead(h) ==
    \/ h.authorization \in BearerHeaders(auth_token)
    \/ ~SendsBearer(h) /\ h.x_api_key = auth_token

AuthStep(presented) ==
    (pc = "idle" /\ pc' # "idle" /\ auth_token # <<>>)
    => IF ep' = "healthz" THEN resp'.status = 200
       ELSE /\ (pc' = "authorized") <=> presented
            /\ pc' # "authorized"
               => /\ resp'.status = 401
                  /\ calls' = <<>>
                  /\ store' = store /\ milvus' = milvus

\* C7 as stated: with AUTH_TOKEN set, a request to a protected endpoint is
\* accepted iff it presents the token as Bearer credential or as X-API-Key;
\* every other request gets 401, makes no call and changes no store;
\* /healthz answers without a token.
C7_AcceptedIffTokenInEitherHeader == [][AuthStep(PresentsToken(hdr'))]_vars

\* C7 amended: accepted iff the token is in the header the gateway reads
\* (a wrong Bearer credential is not made good by a right X-API-Key).
C7_AcceptedIffTokenWhereRead == [][AuthStep(PresentsTokenWhereRead(hdr'))]_vars

\* a request with a wrong Bearer credential and the right X-API-Key was
\* rejected
C7_Witness ==
    /\ auth_token # <<>> /\ pc = "responded" /\ ep \in ProtectedEndpoints
    /\ resp.status = 401
    /\ SendsBearer(hdr) /\ hdr.x_api_key = auth_token

UpsertStep == pc = "authorized" /\ ep = "upsert" /\ pc' = "responded"

\* C8: on the memory backend every /upsert that would bring the store above
\* max_docs is rejected with 400, and the store never holds more than
\* max_docs documents.
C8_OverCapacityIs400 ==
    /\ [](backend = "memory" => Len(store) <= max_docs)
    /\ [][(UpsertStep /\ backend = "memory" /\ trace'.op = "upsert"
           /\ Len(store) + trace'.top_k > max_docs)
          => resp'.status = 400]_vars

\* C9: an /upsert that ends in an error response stores none of its
\* documents.
C9_UpsertAllOrNothing ==
    [][(UpsertStep /\ resp'.status # 200)
       => /\ store' = store
          /\ \A c \in DOMAIN milvus' : RowsOf(milvus', c) = RowsOf(milvus, c)]_vars

\* C10: under every interleaving of concurrent /upsert requests on the
\* memory backend the store never exceeds max_docs, every document of a
\* request answered 200 is stored, and the total a request returns is the
\* store size right after its own last insert.
C10_MemoryBackendSerialized ==
    /\ Len(store) <= max_docs
    /\ \A t \in DOMAIN threads :
          (threads[t].pc = "done" /\ threads[t].status = 200)
          => /\ \A k \in DOMAIN threads[t].mine : threads[t].mine[k] \in Range(store)
             /\ threads[t].total = threads[t].sizeAfterLast

\* C11: all vectors stored in one collection have the same dimension: an
\* upsert whose vectors have another dimension than the vectors already
\* stored fails and stores nothing.  Stated for the memory backend (its one
\* collection is the store), over the stored vectors that have a dimension
\* at all.
C11_OneDimensionPerCollection ==
    backend = "memory" =>
        \A i, j \in DOMAIN store :
            (store[i].vector # <<>> /\ store[j].vector # <<>>)
                => Len(store[i].vector) = Len(store[j].vector)

\* C12: the chunks stored without a caller-supplied doc_id have pairwise
\* different ids within their collection, on both backends, also when two
\* calls arrive within the same second.
C12_SynthesizedIdsUnique ==
    /\ \A c \in DOMAIN milvus : \A i, j \in DOMAIN milvus[c] :
          (i # j /\ milvus[c][i].chunk_id.given = "")
              => milvus[c][i].chunk_id # milvus[c][j].chunk_id
    /\ \A i, j \in DOMAIN store :
          (i # j /\ store[i].doc_id.given = "") => store[i].doc_id # store[j].doc_id

\* a /search on the Milvus backend answered 200
MilvusAnswered == SearchDone /\ trace.op = "milvus" /\ resp.status = 200

\* C13: with context_window W > 0, every surrounding chunk of a hit with
\* chunk_index c is a chunk of the hit's file in the hit's collection, has
\* a chunk_index in [c - W, c + W] other than c, and the surrounding chunks
\* are listed by ascending chunk_index.
C13_SurroundingChunksOfTheFile ==
    (MilvusAnswered /\ trace.inp.req.context_window > 0) =>
        \A i \in DOMAIN resp.hits :
            LET h == resp.hits[i]
                sc == h.surrounding_chunks
                W == trace.inp.req.context_window
                rows == RowsOf(milvus, collection_of(trace.inp.req))
            IN /\ \A k \in DOMAIN sc :
                      /\ sc[k].chunk_index # h.chunk_index
                      /\ sc[k].chunk_index >= h.chunk_index - W
                      /\ sc[k].chunk_index <= h.chunk_index + W
                      /\ \E r \in DOMAIN rows :
                            /\ rows[r].file_name = h.file_name
                            /\ rows[r].chunk_index = sc[k].chunk_index
                            /\ rows[r].text = sc[k].text
               /\ \A k \in 1..(Len(sc) - 1) : sc[k].chunk_index <= sc[k + 1].chunk_index

\* a hit with two surrounding chunks of different chunk_index, out of a
\* collection that lists the file's chunks in another order
C13_Witness ==
    /\ MilvusAnswered /\ trace.inp.req.context_window = 1
    /\ LET rows == RowsOf(milvus, collection_of(trace.inp.req))
       IN \E r \in 1..(Len(rows) - 1) :
             /\ rows[r].file_name = FileA /\ rows[r + 1].file_name = FileA
             /\ rows[r].chunk_index > rows[r + 1].chunk_index
    /\ \E i \in DOMAIN resp.hits :
          /\ Len(resp.hits[i].surrounding_chunks) = 2
          /\ resp.hits[i].surrounding_chunks[1].chunk_index
                < resp.hits[i].surrounding_chunks[2].chunk_index

\* C14: when fetching the context chunks of one hit fails, that hit has no
\* surrounding chunks, every other hit has the surrounding chunks it has
\* when no fetch fails, and the response is 200 with the same hits in the
\* same order.
C14_ContextFailureIsLocal ==
    (SearchDone /\ trace.op = "milvus" /\ trace.inp.req.context_window > 0
     /\ trace.inp.ctx # {})
    => LET same(base) ==
               /\ base.status = 200 => resp.status = 200
               /\ Len(resp.hits) = Len(base.hits)
               /\ \A i \in DOMAIN base.hits :
                     resp.hits[i] = IF i \in trace.inp.ctx THEN Core(base.hits[i])
                                    ELSE base.hits[i]
       IN same(search_handler(trace.inp.req, trace.inp.emb, trace.inp.hyb,
                              trace.inp.env, {}, store, milvus, backend).resp)

\* the fetch for the first of two hits of one file failed: the first hit
\* lies in the window of the second, which lists it
C14_Witness ==
    /\ MilvusAnswered /\ trace.inp.ctx = {1} /\ Len(resp.hits) = 2
    /\ resp.hits[1].file_name = resp.hits[2].file_name
    /\ resp.hits[1].surrounding_chunks = <<>>
    /\ \E k \in DOMAIN resp.hits[2].surrounding_chunks :
          resp.hits[2].surrounding_chunks[k].chunk_index = resp.hits[1].chunk_index

\* the hit satisfies every filter the request supplies
SatisfiesAll(hit, f) ==
    /\ f.file_name # <<>> => hit.file_name = f.file_name
    /\ f.file_pattern # <<>> => fnmatch(hit.file_name, f.file_pattern)
    /\ f.mime_type # "" => hit.mime_type = f.mime_type

\* C15: the filter stage keeps exactly the candidates that satisfy every
\* supplied filter, in their original relative order, and all candidates
\* when the request has no filter.
C15_FilterKeepsExactlyTheMatching ==
    (SearchDone /\ trace.op = "milvus") =>
        LET f == trace.inp.req.filters
            K == {i \in DOMAIN trace.fused : SatisfiesAll(trace.fused[i], f)}
            nth(j) == CHOOSE i \in K : Cardinality({x \in K : x <= i}) = j
        IN /\ Len(trace.filtered) = Cardinality(K)
           /\ \A j \in DOMAIN trace.filtered : trace.filtered[j] = trace.fused[nth(j)]
           /\ ~f.present => trace.filtered = trace.fused

\* two filters supplied, two candidates: one satisfies both and is kept,
\* the other satisfies one of them only and is dropped
C15_Witness ==
    /\ SearchDone /\ trace.op = "milvus"
    /\ trace.inp.req.filters.file_name # <<>>
    /\ trace.inp.req.filters.file_pattern # <<>>
    /\ Len(trace.fused) = 2 /\ Len(trace.filtered) = 1
    /\ trace.filtered[1] = trace.fused[2]
    /\ fnmatch(trace.fused[1].file_name, trace.inp.req.filters.file_pattern)

\* C16: when embedding the query fails during /search, the response is
\* HTTP 502, on both backends.
C16_EmbedFailureIs502 ==
    (SearchDone /\ trace.op \in {"memory", "milvus"}
     /\ calls # <<>> /\ calls[1] = "embed"
     /\ embed_texts(<<trace.inp.req.query>>, trace.inp.req.model, trace.inp.emb).raised)
    => resp.status = 502

UpsertDone == pc = "responded" /\ ep = "upsert"

\* C17: a /search request with the empty query and an /upsert request with
\* an empty documents list are answered 400 without any embedding,
\* retrieval, rerank or insert call.
C17_EmptyInputIs400 ==
    /\ (SearchDone /\ trace.op # "none" /\ trace.inp.req.query = "")
          => (resp.status = 400 /\ calls = <<>>)
    /\ (UpsertDone /\ trace.op # "none" /\ trace.inp.req.documents = <<>>)
          => (resp.status = 400 /\ calls = <<>>)

\* What the same store and the same reranker answer when the search is
\* repeated with a larger limit: hybrid_search returns the same ranking,
\* longer if the first reply was cut by its limit; the reranker applies the
\* same rule to the candidates it is given.
LongerReplies(hyb, limit, limit2, rows) ==
    {HybridHits(p2, hyb.profile) :
        p2 \in {q \in DistinctSeqs(DOMAIN rows, limit2) :
                   /\ Len(q) >= Len(hyb.pos)
                   /\ SubSeq(q, 1, Len(hyb.pos)) = hyb.pos
                   /\ Len(hyb.pos) < limit => q = hyb.pos}}
SameReranker(env, m) ==
    IF env.src = "service" THEN RerankVia(Caikit, UpOk(Scored(Reverse(m), TRUE)))
    ELSE env

\* C18: for the same store, query, filters and environment, the hits of a
\* /search with top_k = k are the first k hits of the same search with a
\* larger top_k.
C18_TopKIsPrefixOfLargerTopK ==
    (MilvusAnswered /\ trace.inp.hyb.kind = "hits" /\ trace.inp.ctx = {})
    => \A k2 \in (trace.inp.req.top_k + 1)..MaxTopK :
          LET req == trace.inp.req
              req2 == [req EXCEPT !.top_k = k2]
              prefix(larger) ==
                  larger.status = 200 => resp.hits = Take(larger.hits, req.top_k)
          IN \A hyb2 \in LongerReplies(trace.inp.hyb, overfetch_of(req),
                                       overfetch_of(req2),
                                       RowsOf(milvus, collection_of(req))) :
                prefix(search_handler(req2, trace.inp.emb, hyb2,
                                      SameReranker(trace.inp.env, Len(hyb2.pos)),
                                      {}, store, milvus, backend).resp)

\* C20: on every provider path and for every upstream response, the index
\* list rerank_documents returns for n documents holds only positions in
\* 0..n-1, none of them twice, and at most top_n of them.  (The rerank
\* service answers with the list rerank_documents returned, n being the
\* number of filtered candidates and top_n the request's top_k.)
C20_RerankIndicesWellFormed ==
    (RerankCalled /\ trace.src = "service" /\ trace.reply.kind = "list")
    => LET ix == trace.reply.items
           n == Len(trace.filtered)
       IN /\ \A i \in DOMAIN ix : ix[i] >= 0 /\ ix[i] <= n - 1
          /\ \A i, j \in DOMAIN ix : i # j => ix[i] # ix[j]
          /\ Len(ix) <= trace.top_k

EmbedDone == pc = "responded" /\ ep = "embed_texts"

\* C19: on every path, embed_texts returns one vector per input text, the
\* i-th vector being the embedding of the i-th text (of what the text was
\* truncated to, when it is above the input limit); for an empty input it
\* returns the empty list and makes no remote call.
C19_OneVectorPerTextInOrder ==
    EmbedDone =>
        LET texts == trace.inp.texts
        IN /\ texts = <<>> => (resp.status = 200 /\ resp.hits = <<>> /\ calls = <<>>)
           /\ resp.status = 200 =>
                 /\ Len(resp.hits) = Len(texts)
                 /\ \A i \in DOMAIN texts :
                       resp.hits[i] \in {EmbedVec(t, m) :
                                           t \in {texts[i], truncated(texts[i])},
                                           m \in Models}

RerankDone == pc = "responded" /\ ep = "rerank"
ProviderClasses == {"CohereRerankProvider", "JinaRerankProvider", "CaikitRerankProvider"}

\* C21: reranking n documents with an empty query returns the identity
\* order [0 .. min(n, top_n) - 1] and posts nothing to a remote reranker,
\* through rerank_documents and through each provider class; the
\* passthrough provider returns that order for every query.
C21_EmptyQueryIsIdentity ==
    (RerankDone /\ (trace.inp.query = "" \/ trace.inp.via = "PassthroughRerankProvider"))
    => /\ resp.status = 200
       /\ resp.hits = passthrough_order(trace.inp.n, trace.inp.top_n)
       /\ calls = <<>>

\* C22: a provider class given more documents than its max_documents posts
\* exactly max_documents of them to its backend, never more, and returns a
\* result whenever the backend answers.
C22_ProviderCapsDocuments ==
    (RerankDone /\ trace.inp.via \in ProviderClasses
                /\ trace.inp.n > trace.inp.max_documents)
    => /\ trace.called => trace.top_k = trace.inp.max_documents
       /\ (trace.called /\ trace.inp.upstream.kind = "ok") => resp.status = 200

\* the process has run _init_backend and no request was handled since
Started == trace.op = "startup"

\* C23: when GATEWAY_REQUIRE_BACKEND is set and the configured Milvus
\* backend cannot be initialized, startup fails: _init_backend raises, no
\* backend is installed and no request is served.
C23_RequiredBackendFailsStartup ==
    (Started /\ trace.inp.require /\ trace.inp.backend_name = "milvus"
             /\ ~trace.inp.milvus_ok)
    => (pc = "failed" /\ backend = "none")

ConfigDone == pc = "responded" /\ ep = "config"

\* C24: resolving the active provider fails whenever the active embedding
\* or rerank provider name is not among the configured providers, or the
\* active provider is not of type passthrough and has no API key in the
\* environment: no default provider takes its place and no passthrough
\* order is served.
C24_UndefinedOrKeylessProviderFails ==
    ConfigDone =>
        LET inp == trace.inp
            disabled == inp.kind = "rerank" /\ inp.active \in {"", "none"}
            undefined == ~disabled /\ inp.active \notin inp.providers
            keyless == /\ inp.active \in inp.providers
                       /\ inp.active # "passthrough"
                       /\ ~inp.key
        IN (undefined \/ keyless) => (resp.status = 500 /\ ~trace.called)

McpDone == pc = "responded" /\ ep = "rag_search"

\* the argument set of a rag_search call is invalid
McpInvalid(inp) ==
    \/ \A i \in DOMAIN inp.query : inp.query[i] = " "
    \/ inp.collection = <<>>
    \/ inp.top_k \notin 1..20
    \/ inp.context_window \notin 0..5
    \/ inp.min_score \notin 0..One
    \/ inp.response_format \notin {"concise", "detailed"}

\* C25: rag_search answers every invalid argument set (empty or
\* whitespace-only query, empty collection, top_k outside 1..20,
\* context_window outside 0..5, min_score outside [0, 1], response_format
\* other than concise/detailed) with a ToolError and sends no request to
\* the vector gateway for it.
C25_InvalidArgumentsNeverReachGateway ==
    (McpDone /\ McpInvalid(trace.inp)) => (resp = ToolError /\ calls = <<>>)

\* an argument set whose only fault is a context_window of 6 was rejected
\* without a request, whatever the gateway would have answered
C25_Witness ==
    /\ McpDone
    /\ trace.inp.context_window = 6
    /\ trace.inp.query = <<"a">> /\ trace.inp.collection = <<"c">>
    /\ trace.inp.top_k = 20 /\ trace.inp.min_score = One
    /\ trace.inp.response_format = "detailed"
    /\ trace.inp.gateway = "hits"
    /\ resp = ToolError /\ calls = <<>>

\* C26: with an embedding service URL configured and prefer_service true,
\* embed_texts calls the service first; when that call raises, times out,
\* answers a bad status or a body without a list `vectors`, the direct
\* provider is invoked for the same texts and its result is returned; when
\* the service call succeeds the direct provider is not invoked.
C26_ServiceFirstThenDirectProvider ==
    (EmbedDone /\ trace.inp.texts # <<>> /\ trace.inp.emb.service # "unset")
    => LET texts == trace.inp.texts
           model == trace.inp.model
           env == trace.inp.emb
           same(direct) ==
               /\ resp = IF direct.raised THEN ErrorResp(500)
                         ELSE Resp(200, direct.vectors, Len(direct.vectors), FALSE, 0, 0, {})
               /\ Tail(calls) = [i \in 1..direct.calls |-> "remote"]
       IN /\ calls # <<>> /\ Head(calls) = "service"
          /\ env.service \in ServiceFailures =>
                same(embed_texts(texts, model, [env EXCEPT !.service = "unset"]))
          /\ env.service \notin ServiceFailures =>
                /\ calls = <<"service">>
                /\ resp.status = 200
                /\ resp.hits = remote_vectors(texts, model, env.service)

\* the service answered a bad status for two texts, the direct provider
\* was called for both and its two vectors were returned
C26_Witness ==
    /\ EmbedDone
    /\ trace.inp.emb = EmbedEnv("status", "openai", "ok", 1)
    /\ Len(trace.inp.texts) = 2
    /\ Head(calls) = "service" /\ Len(calls) >= 2
    /\ resp.status = 200
    /\ resp.hits = [i \in 1..2 |-> EmbedVec(trace.inp.texts[i], trace.inp.model)]

ServiceDone == pc = "responded" /\ ep \in {"/embed", "/rerank"}

\* C27: handling one request to /embed of the embedding service or /rerank
\* of the rerank service never issues a request to EMBEDDING_SERVICE_URL
\* or RERANK_SERVICE_URL, also when the variable is set in the service's
\* own environment; the request ends after the direct provider calls, at
\* most one per text or one per rerank.
C27_ServiceHandlersNeverCallTheService ==
    ServiceDone =>
        /\ \A i \in DOMAIN calls : calls[i] # "service"
        /\ Len(calls) <= (IF ep = "/embed" THEN Len(trace.inp.texts) ELSE 1)

\* /embed was handled in an environment whose EMBEDDING_SERVICE_URL is set
\* and answers: the vectors came from one provider call
C27_Witness ==
    /\ ServiceDone /\ ep = "/embed"
    /\ trace.inp.service = "ok"
    /\ resp.status = 200 /\ resp.count = 1
    /\ calls = <<"remote">>

\* the estimated tokens of the texts of one request
RECURSIVE TokensOf(_)
TokensOf(batch) ==
    IF batch = <<>> THEN 0 ELSE estimate_tokens(Head(batch)) + TokensOf(Tail(batch))

\* C28: on the direct OpenAI-compatible path every request sent to the
\* embedding backend holds at most max_batch texts and at most
\* max_tokens_per_batch (3500) estimated tokens in total.
C28_DirectRequestsWithinLimits ==
    EmbedDone =>
        \A b \in DOMAIN trace.fused :
            /\ Len(trace.fused[b]) <= trace.inp.emb.max_batch
            /\ TokensOf(trace.fused[b]) <= MAX_TOKENS_PER_BATCH

\* C29: in every /search on the Milvus backend the outbound calls are made
\* in the order embed, hybrid search, rerank, context fetches: the hybrid
\* search is issued only after the embedding returned a vector, rerank is
\* called at most once, on the candidates that passed the filters and not
\* at all when none passed, and one context fetch is issued per returned
\* hit with a file name, that is only for hits that survived the cut to
\* top_k.
C29_SearchCallsInPipelineOrder ==
    (SearchDone /\ trace.op = "milvus") =>
        LET req == trace.inp.req
            fetches == Len(SelectSeq(calls, LAMBDA c : c = "get_context_chunks"))
            head == SelectSeq(calls, LAMBDA c : c # "get_context_chunks")
            returned(e) == ~e.raised /\ e.vectors # <<>>
        IN /\ calls = head \o [i \in 1..fetches |-> "get_context_chunks"]
           /\ head \in {<<"embed">>, <<"embed", "hybrid_search">>,
                        <<"embed", "hybrid_search", "rerank">>}
           /\ Len(head) >= 2 =>
                 returned(embed_texts(<<req.query>>, req.model, trace.inp.emb))
           /\ (Len(head) = 3) <=> (trace.filtered # <<>>)
           /\ \A i \in DOMAIN trace.filtered : SatisfiesAll(trace.filtered[i], req.filters)
           /\ resp.status # 200 => fetches = 0
           /\ resp.status = 200 =>
                 /\ Len(resp.hits) <= req.top_k
                 /\ fetches = Cardinality({i \in DOMAIN resp.hits :
                                             /\ req.context_window > 0
                                             /\ resp.hits[i].file_name # <<>>})

\* two candidates were reranked, one was cut by top_k = 1, and the only
\* context fetch was made for the hit returned
C29_Witness ==
    /\ SearchDone /\ trace.op = "milvus" /\ resp.status = 200
    /\ trace.inp.req.top_k = 1 /\ trace.inp.req.context_window = 1
    /\ Len(trace.filtered) = 2 /\ Len(resp.hits) = 1
    /\ calls = <<"embed", "hybrid_search", "rerank", "get_context_chunks">>

\* C30: collections are isolated from each other: after any sequence of
\* /upsert calls a /search naming one collection never returns a document
\* that was upserted only into the other, on the Milvus and on the memory
\* backend.  ("alpha" documents are upserted into the default collection
\* only, "beta" documents into collection "B" only.)
C30_CollectionsAreIsolated ==
    (SearchDone /\ resp.status = 200) =>
        \A i \in DOMAIN resp.hits :
            resp.hits[i].text = (IF collection_of(trace.inp.req) = "B"
                                 THEN "beta" ELSE "alpha")

====
